---- MODULE Spec2Model ----
(***************************************************************************)
(* Type metadata identifiers (Itanium C++ ABI mangling) for LLVM CFI:      *)
(* a model of compiler/rustc_symbol_mangling/src/typeid/                   *)
(* typeid_itanium_cxx_abi.rs.                                              *)
(*                                                                         *)
(* Strings are TLA+ strings (\o, Len, SubSeq).  A panic (bug!, unwrap,     *)
(* expect) is the flag `fatal` of the value an operator returns; a value   *)
(* whose `fatal` is TRUE carries nothing else of meaning.                  *)
(***************************************************************************)
EXTENDS Integers, Sequences, FiniteSets, TLC

VARIABLES
    pc,             \* position of the running operation
    arg,            \* input of the pure function applied last
    ret,            \* what it returned
    pointer_width,  \* tcx.sess.target.pointer_width
    fn_abi,         \* typeid_for_fnabi: the FnAbi being encoded
    options,        \* typeid_for_fnabi: its TypeIdOptions
    n,              \* typeid_for_fnabi: index of the next argument
    typeid,         \* typeid_for_fnabi: the string built so far
    dict,           \* typeid_for_fnabi: the substitution dictionary
    type_folder,    \* typeid_for_fnabi: the TransformTy
    dcx,            \* number of diagnostics emitted through tcx.dcx()
    log,            \* history: the calls of compress made so far
    pushed_arg,     \* typeid_for_fnabi: whether an argument was encoded
    parts,          \* history: the encoded components pushed so far
    calls,          \* history: the top-level calls completed so far
    stack           \* fold_ty step by step: the calls still to be made

vars == <<pc, arg, ret, pointer_width, fn_abi, options, n, typeid, dict,
          type_folder, dcx, log, pushed_arg, parts, calls, stack>>

----------------------------------------------------------------------------
(* Bounds of the model *)

\* to_disambiguator and to_seq_id are applied to 0..MaxNum
MaxNum == 140

\* a FnAbi has at most MaxArgs arguments
MaxArgs == 2

\* the types the pure functions are applied to are built in at most MaxDepth
\* layers over the leaf types
MaxDepth == 1

\* the completed top-level calls a behaviour remembers
MaxCalls == 1

\* the vtable slots a virtual call may carry are 0..MaxSlot
MaxSlot == 2

\* the repr(transparent) structs fold_ty may be inside of at one time
MaxParents == 4

----------------------------------------------------------------------------
(* Strings *)

At(s, i) == SubSeq(s, i, i)

StartsWith(s, p) == Len(s) >= Len(p) /\ SubSeq(s, 1, Len(p)) = p

EndsWith(s, p) == Len(s) >= Len(p) /\ SubSeq(s, Len(s) - Len(p) + 1, Len(s)) = p

\* the position of the one-character string c in s, 0 when absent
IndexOf(s, c) ==
    IF \E i \in 1..Len(s) : At(s, i) = c
    THEN CHOOSE i \in 1..Len(s) : At(s, i) = c /\ \A j \in 1..(i - 1) : At(s, j) # c
    ELSE 0

LowerCase == "abcdefghijklmnopqrstuvwxyz"
UpperCase == "ABCDEFGHIJKLMNOPQRSTUVWXYZ"
DecDigits == "0123456789"

\* str::to_uppercase on ASCII
RECURSIVE to_uppercase(_)
to_uppercase(s) ==
    IF s = "" THEN ""
    ELSE LET c == At(s, 1)
             i == IndexOf(LowerCase, c)
         IN  (IF i > 0 THEN At(UpperCase, i) ELSE c) \o to_uppercase(SubSeq(s, 2, Len(s)))

IsWhitespace(c) == c \in {" ", "\t", "\n", "\r"}

\* str::trim
RECURSIVE trim(_)
trim(s) ==
    IF s = "" THEN ""
    ELSE IF IsWhitespace(At(s, 1)) THEN trim(SubSeq(s, 2, Len(s)))
    ELSE IF IsWhitespace(At(s, Len(s))) THEN trim(SubSeq(s, 1, Len(s) - 1))
    ELSE s

\* the digits of rustc_data_structures::base_n
BASE_64 == "0123456789abcdefghijklmnopqrstuvwxyzABCDEFGHIJKLMNOPQRSTUVWXYZ@$"

\* base_n::encode(n, base): most significant digit first, "0" for 0
RECURSIVE base_n_encode(_, _)
base_n_encode(num, base) ==
    IF num < base THEN At(BASE_64, num + 1)
    ELSE base_n_encode(num \div base, base) \o At(BASE_64, (num % base) + 1)

----------------------------------------------------------------------------
(* Disambiguator / sequence codec *)

to_disambiguator_no_sub(num) == "s" \o base_n_encode(num, 62) \o "_"

\* fn to_disambiguator(num: u64) -> String
to_disambiguator(num) ==
    IF num >= 1 THEN "s" \o base_n_encode(num - 1, 62) \o "_"
    ELSE "s_"

to_seq_id_no_sub(num) == to_uppercase(base_n_encode(num, 36))

\* fn to_seq_id(num: usize) -> String
to_seq_id(num) ==
    IF num >= 1 THEN to_uppercase(base_n_encode(num - 1, 36))
    ELSE ""

----------------------------------------------------------------------------
(* The type graph (rustc_middle::ty), as far as this file reads it *)

Bool == [k |-> "Bool"]
Char == [k |-> "Char"]
Str == [k |-> "Str"]
Never == [k |-> "Never"]
ty_Int(ity) == [k |-> "Int", ity |-> ity]
ty_Uint(uty) == [k |-> "Uint", uty |-> uty]
ty_Float(fty) == [k |-> "Float", fty |-> fty]
Tuple(tys) == [k |-> "Tuple", tys |-> tys]
Array(ty, len) == [k |-> "Array", ty |-> ty, len |-> len]
Pat(ty, pat) == [k |-> "Pat", ty |-> ty, pat |-> pat]
Slice(ty) == [k |-> "Slice", ty |-> ty]
Adt(did, args) == [k |-> "Adt", did |-> did, args |-> args]
Foreign(did) == [k |-> "Foreign", did |-> did]
FnDef(did, args) == [k |-> "FnDef", did |-> did, args |-> args]
Closure(did, args) == [k |-> "Closure", did |-> did, args |-> args]
\* the first nparent of args are the parent's
CoroutineClosure(did, args, nparent) ==
    [k |-> "CoroutineClosure", did |-> did, args |-> args, nparent |-> nparent]
Coroutine(did, args, nparent) ==
    [k |-> "Coroutine", did |-> did, args |-> args, nparent |-> nparent]
Ref(region, ty, mutbl) == [k |-> "Ref", region |-> region, ty |-> ty, mutbl |-> mutbl]
RawPtr(ty, mutbl) == [k |-> "RawPtr", ty |-> ty, mutbl |-> mutbl]
FnPtr(sig) == [k |-> "FnPtr", sig |-> sig]
Dynamic(preds, region, kind) ==
    [k |-> "Dynamic", preds |-> preds, region |-> region, kind |-> kind]
Param(idx) == [k |-> "Param", idx |-> idx]
Alias(did, args) == [k |-> "Alias", did |-> did, args |-> args]
Bound == [k |-> "Bound"]
Error == [k |-> "Error"]
CoroutineWitness == [k |-> "CoroutineWitness"]
Infer == [k |-> "Infer"]
Placeholder == [k |-> "Placeholder"]

\* tcx.types.unit
unit == Tuple(<<>>)
is_unit(ty) == ty.k = "Tuple" /\ ty.tys = <<>>
is_mutable_ptr(ty) == ty.k \in {"Ref", "RawPtr"} /\ ty.mutbl
is_any_ptr(ty) == ty.k \in {"Ref", "RawPtr", "FnPtr"}

\* FnSig
FnSig(abi, output, inputs, c_variadic) ==
    [abi |-> abi, output |-> output, inputs |-> inputs, c_variadic |-> c_variadic]

\* Region
ReErased == [r |-> "ReErased"]
ReStatic == [r |-> "ReStatic"]
ReEarlyParam == [r |-> "ReEarlyParam"]
ReBound(debruijn, var) == [r |-> "ReBound", debruijn |-> debruijn, var |-> var]

\* Const: kind Param, Value (with its bit pattern) or another kind
ConstParam(ty) == [ck |-> "Param", ty |-> ty, bits |-> 0]
ConstValue(ty, bits) == [ck |-> "Value", ty |-> ty, bits |-> bits]
ConstInfer(ty) == [ck |-> "Infer", ty |-> ty, bits |-> 0]

\* GenericArg
Lifetime(region) == [g |-> "Lifetime", v |-> region]
Type(ty) == [g |-> "Type", v |-> ty]
ConstArg(c) == [g |-> "Const", v |-> c]

\* ExistentialPredicate
ExTrait(did, args) == [p |-> "Trait", did |-> did, args |-> args]
ExProjection(did, args, term) == [p |-> "Projection", did |-> did, args |-> args, term |-> term]
ExAutoTrait(did) == [p |-> "AutoTrait", did |-> did]

\* TypeIdOptions
GENERALIZE_POINTERS == "GENERALIZE_POINTERS"
GENERALIZE_REPR_C == "GENERALIZE_REPR_C"
NORMALIZE_INTEGERS == "NORMALIZE_INTEGERS"
USE_CONCRETE_SELF == "USE_CONCRETE_SELF"
TypeIdOptions == SUBSET {GENERALIZE_POINTERS, GENERALIZE_REPR_C, NORMALIZE_INTEGERS,
                         USE_CONCRETE_SELF}

\* TypeIdOptions::from_bits(options.bits())
from_bits(opts) == [some |-> opts \in TypeIdOptions, v |-> opts]

\* DictKey
DictKey_Ty(ty, q) == [kind |-> "Ty", v |-> ty, q |-> q]
DictKey_Region(region) == [kind |-> "Region", v |-> region, q |-> "None"]
DictKey_Const(c) == [kind |-> "Const", v |-> c, q |-> "None"]
DictKey_Predicate(pred) == [kind |-> "Predicate", v |-> pred, q |-> "None"]

----------------------------------------------------------------------------
(* What tcx answers: the definitions of the crate being compiled *)

NoAttr == [attr |-> FALSE, has_value |-> FALSE, value |-> ""]
AttrValue(v) == [attr |-> TRUE, has_value |-> TRUE, value |-> v]
AttrNoValue == [attr |-> TRUE, has_value |-> FALSE, value |-> ""]

Seg(data, name, disambiguator) ==
    [data |-> data, name |-> name, disambiguator |-> disambiguator]

\* tcx.def_path(def_id), with DefPathData::to_string() as each segment's name
def_path(did) ==
    CASE did = "Struct1" -> [krate |-> "crate", data |-> <<Seg("TypeNs", "Struct1", 0)>>]
      [] did = "Gen1" -> [krate |-> "crate",
                          data |-> <<Seg("TypeNs", "mod1", 0), Seg("TypeNs", "Gen1", 0)>>]
      [] did = "type1" -> [krate |-> "crate", data |-> <<Seg("TypeNs", "type1", 0)>>]
      [] did = "type2" -> [krate |-> "crate", data |-> <<Seg("TypeNs", "type2", 0)>>]
      [] did = "c_void" -> [krate |-> "core",
                            data |-> <<Seg("TypeNs", "ffi", 0), Seg("TypeNs", "c_void", 0)>>]
      [] did = "Wrap" -> [krate |-> "crate", data |-> <<Seg("TypeNs", "Wrap", 0)>>]
      [] did = "WrapZst" -> [krate |-> "crate", data |-> <<Seg("TypeNs", "WrapZst", 0)>>]
      [] did = "_Under" -> [krate |-> "crate", data |-> <<Seg("TypeNs", "_Under", 0)>>]
      [] did = "Trait1" -> [krate |-> "crate", data |-> <<Seg("TypeNs", "Trait1", 0)>>]
      [] did = "Trait2" -> [krate |-> "crate", data |-> <<Seg("TypeNs", "Trait2", 0)>>]
      [] did = "Trait2::Out" ->
            [krate |-> "crate", data |-> <<Seg("TypeNs", "Trait2", 0), Seg("TypeNs", "Out", 0)>>]
      [] did = "Trait5::Aux" ->
            [krate |-> "crate", data |-> <<Seg("TypeNs", "Trait5", 0), Seg("TypeNs", "Aux", 0)>>]
      [] did = "FnOnce" -> [krate |-> "core",
                            data |-> <<Seg("TypeNs", "ops", 0), Seg("TypeNs", "FnOnce", 0)>>]
      [] did = "FnOnce::Output" ->
            [krate |-> "core", data |-> <<Seg("TypeNs", "ops", 0), Seg("TypeNs", "FnOnce", 0),
                                          Seg("TypeNs", "Output", 0)>>]
      [] did = "Future" -> [krate |-> "core",
                            data |-> <<Seg("TypeNs", "future", 0), Seg("TypeNs", "Future", 0)>>]
      [] did = "Future::Output" ->
            [krate |-> "core", data |-> <<Seg("TypeNs", "future", 0), Seg("TypeNs", "Future", 0),
                                          Seg("TypeNs", "Output", 0)>>]
      [] did = "Send" -> [krate |-> "core",
                          data |-> <<Seg("TypeNs", "marker", 0), Seg("TypeNs", "Send", 0)>>]
      [] did = "Drop" -> [krate |-> "core",
                          data |-> <<Seg("TypeNs", "ops", 0), Seg("TypeNs", "drop", 0),
                                     Seg("TypeNs", "Drop", 0)>>]
      [] did = "foo1" -> [krate |-> "crate", data |-> <<Seg("ValueNs", "foo1", 0)>>]
      [] did = "impl1::foo" ->
            [krate |-> "crate", data |-> <<Seg("Impl", "{{impl}}", 1), Seg("ValueNs", "foo", 0)>>]
      [] did = "foo1::closure" ->
            [krate |-> "crate",
             data |-> <<Seg("ValueNs", "foo1", 0), Seg("Closure", "{{closure}}", 0)>>]
      [] did = "asm1" -> [krate |-> "crate", data |-> <<Seg("GlobalAsm", "{{global_asm}}", 0)>>]
      [] OTHER -> [krate |-> "crate", data |-> <<Seg("TypeNs", did, 0)>>]

\* tcx.stable_crate_id(krate).as_u64()
stable_crate_id(krate) == IF krate = "core" THEN 7 ELSE 100

\* tcx.crate_name(krate)
crate_name(krate) == krate

\* tcx.item_name(def_id)
item_name(did) == LET data == def_path(did).data IN data[Len(data)].name

\* tcx.get_attr(def_id, sym::cfi_encoding)
cfi_encoding(did) ==
    CASE did = "CfiNamed" -> AttrValue("3Foo")
      [] did = "CfiI" -> AttrValue("i")
      [] did = "CfiEmpty" -> AttrValue(" ")
      [] did = "CfiWord" -> AttrNoValue
      [] did = "WrapCfi" -> AttrValue(" 4Wrap")
      [] did = "ext_cfi" -> AttrValue("3Bar")
      [] did = "ext_empty" -> AttrValue("")
      [] OTHER -> NoAttr

Field(ty, zst) == [ty |-> ty, zst |-> zst]

AdtPlain ==
    [repr_c |-> FALSE, transparent |-> FALSE, is_struct |-> TRUE, c_void |-> FALSE,
     fields |-> <<>>]

\* AdtDef: repr(), is_struct(), the c_void lang item, and the fields of its only
\* variant with the type of each (type_of) and whether its layout is zero-sized
adt_def(did) ==
    CASE did = "type1" -> [AdtPlain EXCEPT !.repr_c = TRUE, !.fields = <<Field(ty_Int("I32"), FALSE)>>]
      [] did = "type2" -> [AdtPlain EXCEPT !.repr_c = TRUE]
      [] did = "GenC" -> [AdtPlain EXCEPT !.repr_c = TRUE, !.fields = <<Field(Param(0), FALSE)>>]
      [] did = "c_void" -> [AdtPlain EXCEPT !.is_struct = FALSE, !.c_void = TRUE]
      [] did = "Gen1" -> [AdtPlain EXCEPT !.fields = <<Field(Param(0), FALSE)>>]
      [] did = "Wrap" ->
            [AdtPlain EXCEPT !.transparent = TRUE,
                             !.fields = <<Field(unit, TRUE), Field(Param(0), FALSE)>>]
      [] did = "WrapZst" ->
            [AdtPlain EXCEPT !.transparent = TRUE, !.fields = <<Field(unit, TRUE)>>]
      [] did = "WrapCfi" ->
            [AdtPlain EXCEPT !.transparent = TRUE, !.fields = <<Field(ty_Int("I32"), FALSE)>>]
      [] did = "Node" ->
            [AdtPlain EXCEPT !.transparent = TRUE,
                             !.fields = <<Field(RawPtr(Adt("Node", <<>>), FALSE), FALSE)>>]
      [] did = "Own" ->
            [AdtPlain EXCEPT !.transparent = TRUE,
                             !.fields = <<Field(Adt("Gen1", <<Type(Adt("Own", <<>>))>>), FALSE)>>]
      [] did = "Mark" ->
            [AdtPlain EXCEPT !.transparent = TRUE,
                             !.fields = <<Field(Adt("PhantomData", <<Type(Adt("Mark", <<>>))>>),
                                                TRUE),
                                          Field(ty_Uint("U8"), FALSE)>>]
      [] did = "ChainA" ->
            [AdtPlain EXCEPT !.transparent = TRUE,
                             !.fields = <<Field(RawPtr(Adt("ChainB", <<>>), FALSE), FALSE)>>]
      [] did = "ChainB" ->
            [AdtPlain EXCEPT !.transparent = TRUE,
                             !.fields = <<Field(Ref(ReErased, Adt("ChainA", <<>>), FALSE),
                                                FALSE)>>]
      [] did = "OwnA" ->
            [AdtPlain EXCEPT !.transparent = TRUE,
                             !.fields = <<Field(Adt("Gen1", <<Type(Adt("OwnB", <<>>))>>), FALSE)>>]
      [] did = "OwnB" ->
            [AdtPlain EXCEPT !.transparent = TRUE,
                             !.fields = <<Field(Adt("Gen1", <<Type(Adt("OwnA", <<>>))>>), FALSE)>>]
      [] OTHER -> AdtPlain

\* Option: Some(v) and None
Some(v) == [some |-> TRUE, v |-> v]
None == [some |-> FALSE, v |-> ""]

\* what tcx knows of a closure or a coroutine, None for any other definition:
\* the kind of its type, the trait of its kind, its tupled inputs or resume
\* type, and what it returns
closure_like(did) ==
    CASE did = "foo1::closure" ->
            Some([k |-> "Closure", trait_id |-> "FnOnce",
                  inputs |-> Some(Tuple(<<ty_Int("I32")>>)), output |-> Bool])
      [] did = "foo1::async" ->
            Some([k |-> "Coroutine", trait_id |-> "Future", inputs |-> None,
                  output |-> ty_Int("I32")])
      [] OTHER -> None

\* the existential projections of a trait object type that bind associated type did
projections_of(t, did) ==
    IF t.k = "Dynamic"
    THEN SelectSeq(t.preds, LAMBDA q : q.p = "Projection" /\ q.did = did)
    ELSE <<>>

\* the type of a projection <Self as Trait>::Assoc once normalized, args[1]
\* being Self
normalize_projection(did, args) ==
    CASE projections_of(args[1].v, did) # <<>> -> projections_of(args[1].v, did)[1].term.v
      [] args[1].v.k \in {"Closure", "Coroutine"} /\ closure_like(args[1].v.did).some ->
            closure_like(args[1].v.did).v.output
      [] did = "Trait2::Out" /\ args[1].v = Adt("Struct1", <<>>) -> ty_Int("I32")
      [] did = "Trait5::Aux" /\ args[1].v = Adt("Struct1", <<>>) -> Bool
      [] did = "Trait2::Out" /\ args[1].v.k = "Adt" /\ args[1].v.did = "Gen1" ->
            args[1].v.args[1].v
      [] OTHER -> Error

\* tcx.normalize_erasing_regions on an alias
normalize_erasing_regions(t) ==
    CASE t.did \in {"Trait2::Out", "Trait5::Aux", "FnOnce::Output", "Future::Output"} ->
            normalize_projection(t.did, t.args)
      [] t.did = "Alias1" -> ty_Int("I32")
      [] t.did = "Alias2" -> Tuple(<<Bool, ty_Uint("Usize")>>)
      [] OTHER -> Error


----------------------------------------------------------------------------
(* Walking and rebuilding the type graph (rustc_middle::ty::fold, walk, generic_args) *)

RECURSIVE instantiate(_, _), instantiate_list(_, _), instantiate_item(_, _)

\* EarlyBinder::instantiate(tcx, args): type parameter idx becomes args[idx]
instantiate(t, args) ==
    CASE t.k = "Param" ->
            IF t.idx < Len(args) /\ args[t.idx + 1].g = "Type" THEN args[t.idx + 1].v ELSE t
      [] t.k \in {"Array", "Pat", "Slice", "Ref", "RawPtr"} ->
            [t EXCEPT !.ty = instantiate(@, args)]
      [] t.k = "Tuple" -> [t EXCEPT !.tys = instantiate_list(@, args)]
      [] t.k \in {"Adt", "FnDef", "Closure", "Coroutine", "CoroutineClosure", "Alias"} ->
            [t EXCEPT !.args = instantiate_list(@, args)]
      [] t.k = "FnPtr" ->
            [t EXCEPT !.sig.inputs = instantiate_list(@, args),
                      !.sig.output = instantiate(@, args)]
      [] t.k = "Dynamic" -> [t EXCEPT !.preds = instantiate_list(@, args)]
      [] OTHER -> t

instantiate_item(x, args) ==
    IF "k" \in DOMAIN x THEN instantiate(x, args)
    ELSE IF "g" \in DOMAIN x THEN
        CASE x.g = "Type" -> Type(instantiate(x.v, args))
          [] x.g = "Const" -> ConstArg([x.v EXCEPT !.ty = instantiate(@, args)])
          [] OTHER -> x
    ELSE
        CASE x.p = "Trait" -> [x EXCEPT !.args = instantiate_list(@, args)]
          [] x.p = "Projection" ->
                [x EXCEPT !.args = instantiate_list(@, args),
                          !.term = instantiate_item(@, args)]
          [] OTHER -> x

instantiate_list(xs, args) == [i \in 1..Len(xs) |-> instantiate_item(xs[i], args)]

RECURSIVE walk(_), walk_list(_), walk_item(_)

\* Ty::walk(): the types a type is built from, itself included
walk(t) ==
    {t} \cup
    CASE t.k \in {"Array", "Pat", "Slice", "Ref", "RawPtr"} -> walk(t.ty)
      [] t.k = "Tuple" -> walk_list(t.tys)
      [] t.k \in {"Adt", "FnDef", "Closure", "Coroutine", "CoroutineClosure", "Alias"} ->
            walk_list(t.args)
      [] t.k = "FnPtr" -> walk_list(t.sig.inputs) \cup walk(t.sig.output)
      [] t.k = "Dynamic" -> walk_list(t.preds)
      [] OTHER -> {}

walk_item(x) ==
    IF "k" \in DOMAIN x THEN walk(x)
    ELSE IF "g" \in DOMAIN x THEN
        CASE x.g = "Type" -> walk(x.v)
          [] x.g = "Const" -> walk(x.v.ty)
          [] OTHER -> {}
    ELSE
        CASE x.p = "Trait" -> walk_list(x.args)
          [] x.p = "Projection" -> walk_list(x.args) \cup walk_item(x.term)
          [] OTHER -> {}

walk_list(xs) == UNION {walk_item(xs[i]) : i \in 1..Len(xs)}

\* Ty::contains
contains(ty0, t) == t \in walk(ty0)

----------------------------------------------------------------------------
(* The type normalization pass: struct TransformTy and its TypeFolder *)

\* TransformTy::new
TransformTy_new(opts) == [options |-> opts, parents |-> <<>>]

\* what one step of folding returns: the folded value, the folder after it, and
\* whether it panicked
Folded(v, tf) == [v |-> v, tf |-> tf, fatal |-> FALSE]
FoldBug(tf) == [v |-> Error, tf |-> tf, fatal |-> TRUE]

\* the fixed-width integer of the target's pointer width
isize_of_width(w) ==
    CASE w = 16 -> "I16" [] w = 32 -> "I32" [] w = 64 -> "I64" [] w = 128 -> "I128"
      [] OTHER -> "bug"

usize_of_width(w) ==
    CASE w = 16 -> "U16" [] w = 32 -> "U32" [] w = 64 -> "U64" [] w = 128 -> "U128"
      [] OTHER -> "bug"

\* the first field whose layout is not zero-sized, 0 when there is none
first_non_zst(fields) ==
    IF \E i \in 1..Len(fields) : ~fields[i].zst
    THEN CHOOSE i \in 1..Len(fields) : ~fields[i].zst /\ \A j \in 1..(i - 1) : fields[j].zst
    ELSE 0

\* one statement after another: F is what the code does with the value x once it
\* has been computed
Then(x, F(_)) == F(x)

\* one folding step after another: a panic in the first ends both
FoldThen(r, F(_)) == IF r.fatal THEN r ELSE F(r)

RECURSIVE fold_ty(_, _), super_fold_with(_, _), fold_list(_, _), fold_item(_, _)

\* a list folded left to right by one folder
fold_list(tf, xs) ==
    IF xs = <<>> THEN Folded(<<>>, tf)
    ELSE FoldThen(fold_item(tf, Head(xs)), LAMBDA h :
         FoldThen(fold_list(h.tf, Tail(xs)), LAMBDA r :
         Folded(<<h.v>> \o r.v, r.tf)))

\* a generic argument, an existential predicate or a term folded: its types go
\* through fold_ty, its regions are kept, a const has its type folded
fold_item(tf, x) ==
    IF "k" \in DOMAIN x THEN fold_ty(tf, x)
    ELSE IF "g" \in DOMAIN x THEN
        CASE x.g = "Type" ->
                FoldThen(fold_ty(tf, x.v), LAMBDA r : Folded(Type(r.v), r.tf))
          [] x.g = "Const" ->
                FoldThen(fold_ty(tf, x.v.ty), LAMBDA r :
                Folded(ConstArg([x.v EXCEPT !.ty = r.v]), r.tf))
          [] OTHER -> Folded(x, tf)
    ELSE
        CASE x.p \in {"Trait", "Projection"} ->
                FoldThen(fold_list(tf, x.args), LAMBDA r :
                IF x.p = "Trait" THEN Folded([x EXCEPT !.args = r.v], r.tf)
                ELSE FoldThen(fold_item(r.tf, x.term), LAMBDA u :
                     Folded([x EXCEPT !.args = r.v, !.term = u.v], u.tf)))
          [] OTHER -> Folded(x, tf)

\* the list of types or arguments or predicates a type is built from: the part
\* of a type that super_fold_with folds as a list
fold_parts(t) ==
    CASE t.k = "Tuple" -> t.tys
      [] t.k \in {"Adt", "FnDef", "Closure", "Coroutine", "CoroutineClosure"} -> t.args
      [] t.k = "FnPtr" -> t.sig.inputs
      [] t.k = "Dynamic" -> t.preds
      [] OTHER -> <<>>

\* t.super_fold_with(self)
super_fold_with(tf, t) ==
    CASE t.k \in {"Array", "Pat", "Slice", "Ref", "RawPtr"} ->
            FoldThen(fold_ty(tf, t.ty), LAMBDA r : Folded([t EXCEPT !.ty = r.v], r.tf))
      [] t.k \in {"Tuple", "Adt", "FnDef", "Closure", "Coroutine", "CoroutineClosure",
                  "FnPtr", "Dynamic"} ->
            FoldThen(fold_list(tf, fold_parts(t)), LAMBDA r :
            CASE t.k = "Tuple" -> Folded([t EXCEPT !.tys = r.v], r.tf)
              [] t.k = "Dynamic" -> Folded([t EXCEPT !.preds = r.v], r.tf)
              [] t.k = "FnPtr" ->
                    FoldThen(fold_ty(r.tf, t.sig.output), LAMBDA u :
                    Folded([t EXCEPT !.sig.inputs = r.v, !.sig.output = u.v], u.tf))
              [] OTHER -> Folded([t EXCEPT !.args = r.v], r.tf))
      [] OTHER -> Folded(t, tf)

\* the pointer-width integers taken to be 64 bits wide on every target
fold_ty_integer_always_64(tf, t) ==
    IF t.k = "Int" /\ t.ity = "Isize" THEN Folded(ty_Int("I64"), tf)
    ELSE IF t.k = "Uint" /\ t.uty = "Usize" THEN Folded(ty_Uint("U64"), tf)
    ELSE Folded(t, tf)

\* the ty::Int(..) | ty::Uint(..) arm with NORMALIZE_INTEGERS set
fold_ty_integer(tf, t) ==
    IF t.k = "Int" /\ t.ity = "Isize" THEN
        IF isize_of_width(pointer_width) = "bug" THEN FoldBug(tf)
        ELSE Folded(ty_Int(isize_of_width(pointer_width)), tf)
    ELSE IF t.k = "Uint" /\ t.uty = "Usize" THEN
        IF usize_of_width(pointer_width) = "bug" THEN FoldBug(tf)
        ELSE Folded(ty_Uint(usize_of_width(pointer_width)), tf)
    ELSE Folded(t, tf)

\* a repr(transparent) struct taken for its first field, zero-sized or not
fold_ty_transparent_first_field(tf, t) ==
    IF cfi_encoding(t.did).attr THEN Folded(t, tf)
    ELSE IF adt_def(t.did).fields = <<>> THEN Folded(unit, tf)
    ELSE FoldThen(fold_ty([tf EXCEPT !.parents = Append(@, t)],
                          instantiate(adt_def(t.did).fields[1].ty, t.args)), LAMBDA r :
         Folded(r.v, [r.tf EXCEPT !.parents = SubSeq(@, 1, Len(@) - 1)]))

\* the options left as they were raised for the field
fold_ty_transparent_keeps_escalation(tf, t) ==
    Then(first_non_zst(adt_def(t.did).fields), LAMBDA i :
    IF cfi_encoding(t.did).attr THEN Folded(t, tf)
    ELSE IF i = 0 THEN Folded(unit, tf)
    ELSE Then(instantiate(adt_def(t.did).fields[i].ty, t.args), LAMBDA ty0 :
         Then(is_any_ptr(ty0) /\ contains(ty0, t), LAMBDA generalize :
         FoldThen(fold_ty([tf EXCEPT !.parents = Append(@, t),
                                     !.options = IF generalize
                                                 THEN @ \cup {GENERALIZE_POINTERS}
                                                 ELSE @],
                          ty0), LAMBDA r :
         Folded(r.v, [r.tf EXCEPT !.parents = SubSeq(@, 1, Len(@) - 1)])))))

\* the ty::Adt(adt_def, args) arm for a repr(transparent) struct not in parents
fold_ty_transparent(tf, t) ==
    Then(first_non_zst(adt_def(t.did).fields), LAMBDA i :
    IF cfi_encoding(t.did).attr THEN Folded(t, tf)
    ELSE IF i = 0 THEN Folded(unit, tf)
    ELSE Then(instantiate(adt_def(t.did).fields[i].ty, t.args), LAMBDA ty0 :
         Then(is_any_ptr(ty0) /\ contains(ty0, t), LAMBDA generalize :
         FoldThen(fold_ty([tf EXCEPT !.parents = Append(@, t),
                                     !.options = IF generalize
                                                 THEN @ \cup {GENERALIZE_POINTERS}
                                                 ELSE @],
                          ty0), LAMBDA r :
         Folded(r.v, [r.tf EXCEPT !.parents = SubSeq(@, 1, Len(@) - 1),
                                  !.options = IF generalize THEN tf.options ELSE @])))))

\* a reference that keeps its region and the type it points at
fold_ty_ref_keeps_pointee(tf, t) == Folded(t, tf)

\* the ty::Ref(..) arm with GENERALIZE_POINTERS set
fold_ty_ref(tf, t) == Folded(Ref(ReStatic, unit, is_mutable_ptr(t)), tf)

fold_ty_goes_inside_forgets_parents(tf, t) ==
    CASE t.k \in {"Array", "Closure", "Coroutine", "CoroutineClosure", "CoroutineWitness",
                  "Dynamic", "Float", "FnDef", "Foreign", "Never", "Slice", "Pat", "Str",
                  "Tuple"} -> TRUE
      [] t.k = "Adt" ->
            ~adt_def(t.did).c_void
            /\ ~(adt_def(t.did).transparent /\ adt_def(t.did).is_struct)
      [] t.k \in {"Ref", "RawPtr", "FnPtr"} -> GENERALIZE_POINTERS \notin tf.options
      [] OTHER -> FALSE

\* whether the folder goes to the type a type is built from, and does not
\* replace the type
fold_ty_goes_inside(tf, t) ==
    CASE t.k \in {"Array", "Closure", "Coroutine", "CoroutineClosure", "CoroutineWitness",
                  "Dynamic", "Float", "FnDef", "Foreign", "Never", "Slice", "Pat", "Str",
                  "Tuple"} -> TRUE
      [] t.k = "Adt" ->
            ~adt_def(t.did).c_void
            /\ ~(adt_def(t.did).transparent /\ adt_def(t.did).is_struct
                 /\ ~(\E i \in 1..Len(tf.parents) : tf.parents[i] = t))
      [] t.k \in {"Ref", "RawPtr", "FnPtr"} -> GENERALIZE_POINTERS \notin tf.options
      [] OTHER -> FALSE

\* fn fold_ty(&mut self, t: Ty<'tcx>) -> Ty<'tcx>
fold_ty(tf, t) ==
    IF fold_ty_goes_inside(tf, t) THEN super_fold_with(tf, t)
    ELSE
    CASE t.k = "Bool" ->
            IF NORMALIZE_INTEGERS \in tf.options THEN Folded(ty_Uint("U8"), tf)
            ELSE Folded(t, tf)
      [] t.k = "Char" ->
            IF NORMALIZE_INTEGERS \in tf.options THEN Folded(ty_Uint("U32"), tf)
            ELSE Folded(t, tf)
      [] t.k \in {"Int", "Uint"} ->
            IF NORMALIZE_INTEGERS \in tf.options THEN fold_ty_integer(tf, t)
            ELSE Folded(t, tf)
      [] t.k = "Adt" ->
            IF adt_def(t.did).c_void THEN Folded(unit, tf)
            ELSE fold_ty_transparent(tf, t)
      [] t.k = "Ref" -> fold_ty_ref(tf, t)
      [] t.k = "RawPtr" -> Folded(RawPtr(unit, is_mutable_ptr(t)), tf)
      [] t.k = "FnPtr" -> Folded(RawPtr(unit, FALSE), tf)
      [] t.k = "Alias" -> fold_ty(tf, normalize_erasing_regions(t))
      [] OTHER -> FoldBug(tf)

\* fold_ty step by step.  What is still to be done is a stack of tasks: a call
\* of fold_ty on a type, or the statements of the repr(transparent) arm that
\* follow the fold of the field, which pop the parent and put the options back.
Task(op, t, opts) == [op |-> op, t |-> t, options |-> opts]

\* the types of a generic argument, a predicate or a term that a fold reaches
RECURSIVE item_tys(_), list_tys(_)
item_tys(x) ==
    IF "k" \in DOMAIN x THEN <<x>>
    ELSE IF "g" \in DOMAIN x THEN
        CASE x.g = "Type" -> <<x.v>>
          [] x.g = "Const" -> <<x.v.ty>>
          [] OTHER -> <<>>
    ELSE
        CASE x.p = "Trait" -> list_tys(x.args)
          [] x.p = "Projection" -> list_tys(x.args) \o item_tys(x.term)
          [] OTHER -> <<>>

list_tys(xs) == IF xs = <<>> THEN <<>> ELSE item_tys(Head(xs)) \o list_tys(Tail(xs))

\* the types t.super_fold_with(self) calls fold_ty on, in order
super_fold_calls(t) ==
    CASE t.k \in {"Array", "Pat", "Slice", "Ref", "RawPtr"} -> <<t.ty>>
      [] t.k = "FnPtr" -> list_tys(t.sig.inputs) \o <<t.sig.output>>
      [] OTHER -> list_tys(fold_parts(t))

\* the field a repr(transparent) struct is unwrapped to, instantiated; <<>> when
\* the struct is kept or becomes unit
transparent_field(t) ==
    IF cfi_encoding(t.did).attr \/ first_non_zst(adt_def(t.did).fields) = 0 THEN <<>>
    ELSE <<instantiate(adt_def(t.did).fields[first_non_zst(adt_def(t.did).fields)].ty,
                       t.args)>>

\* whether one call of fold_ty on t panics by itself
fold_ty_panics(tf, t) ==
    /\ ~fold_ty_goes_inside(tf, t)
    /\ \/ t.k \notin {"Bool", "Char", "Int", "Uint", "Adt", "Ref", "RawPtr", "FnPtr", "Alias"}
       \/ /\ t.k \in {"Int", "Uint"}
          /\ NORMALIZE_INTEGERS \in tf.options
          /\ fold_ty_integer(tf, t).fatal

\* the folder as one call of fold_ty on t leaves it for the calls it makes
fold_ty_enter(tf, t) ==
    IF ~fold_ty_goes_inside(tf, t) /\ t.k = "Adt" /\ ~adt_def(t.did).c_void
       /\ transparent_field(t) # <<>>
    THEN [tf EXCEPT !.parents = Append(@, t),
                    !.options = IF is_any_ptr(transparent_field(t)[1])
                                   /\ contains(transparent_field(t)[1], t)
                                THEN @ \cup {GENERALIZE_POINTERS}
                                ELSE @]
    ELSE tf

\* what one call of fold_ty on t leaves to be done
fold_ty_tasks(tf, t) ==
    IF fold_ty_goes_inside(tf, t)
    THEN [i \in 1..Len(super_fold_calls(t)) |-> Task("fold", super_fold_calls(t)[i], {})]
    ELSE CASE t.k = "Adt" /\ ~adt_def(t.did).c_void /\ transparent_field(t) # <<>> ->
                  <<Task("fold", transparent_field(t)[1], {}), Task("restore", t, tf.options)>>
           [] t.k = "Alias" -> <<Task("fold", normalize_erasing_regions(t), {})>>
           [] OTHER -> <<>>


----------------------------------------------------------------------------
(* Compression dictionary *)

\* the dictionary the call before left behind
dict_of_last_call == dict

\* FxHashMap::default()
EmptyDict == {}

dict_get_counts_from_one(d, key) ==
    IF \E ent \in d : ent.key = key
    THEN [some |-> TRUE, num |-> (CHOOSE ent \in d : ent.key = key).num + 1]
    ELSE [some |-> FALSE, num |-> 0]

\* dict.get(&key)
dict_get(d, key) ==
    IF \E ent \in d : ent.key = key
    THEN [some |-> TRUE, num |-> (CHOOSE ent \in d : ent.key = key).num]
    ELSE [some |-> FALSE, num |-> 0]

compress_insert_only(d, key, comp) ==
    [dict |-> d \cup {[key |-> key, num |-> Cardinality(d)]}, comp |-> comp]

compress_len_plus_one(d, key, comp) ==
    LET found == dict_get(d, key) IN
    IF found.some
    THEN [dict |-> d, comp |-> "S" \o to_seq_id(found.num) \o "_"]
    ELSE [dict |-> d \cup {[key |-> key, num |-> Cardinality(d) + 1]}, comp |-> comp]

compress_renumbers(d, key, comp) ==
    LET found == dict_get(d, key) IN
    IF found.some
    THEN [dict |-> d, comp |-> "S" \o to_seq_id(found.num) \o "_"]
    ELSE [dict |-> {[key |-> ent.key, num |-> ent.num + 1] : ent \in d}
                   \cup {[key |-> key, num |-> 0]},
          comp |-> comp]

\* fn compress(dict, key, comp): the dictionary and the component after the call
compress(d, key, comp) ==
    LET found == dict_get(d, key) IN
    IF found.some
    THEN [dict |-> d, comp |-> "S" \o to_seq_id(found.num) \o "_"]
    ELSE [dict |-> d \cup {[key |-> key, num |-> Cardinality(d)]}, comp |-> comp]

----------------------------------------------------------------------------
(* The encoders.  Each takes the state `e` it runs in: the dictionary, the     *)
(* diagnostics emitted, the history of compress calls and whether a panic     *)
(* happened; and returns the string it built with the state after it.         *)

EncState(d) == [dict |-> d, dcx |-> 0, log |-> <<>>, fatal |-> FALSE]

Enc(s, e) == [s |-> s, e |-> e]

\* bug!(..) and every other panic
EncBug(e) == [s |-> "", e |-> [e EXCEPT !.fatal = TRUE]]

\* tcx.dcx().struct_span_err(..).emit()
EmitErr(e) == [e EXCEPT !.dcx = @ + 1]

\* a call of compress at a place of the encoders, recorded in the history
compress_at(e, key, comp) ==
    IF e.fatal THEN Enc(comp, e)
    ELSE Then(compress(e.dict, key, comp), LAMBDA r :
         Enc(r.comp,
             [e EXCEPT !.dict = r.dict,
                       !.log = Append(@, [key |-> key, comp |-> comp, out |-> r.comp,
                                          before |-> e.dict, after |-> r.dict])]))

\* the single-letter namespace tag of a DefPathData, "" for those that are a bug!
namespace_tag(data) ==
    CASE data = "Impl" -> "I"
      [] data = "ForeignMod" -> "F"
      [] data = "TypeNs" -> "t"
      [] data = "ValueNs" -> "v"
      [] data = "Closure" -> "C"
      [] data = "Ctor" -> "c"
      [] data = "AnonConst" -> "k"
      [] data = "OpaqueTy" -> "i"
      [] OTHER -> ""

RECURSIVE namespace_tags(_)
\* N<namespace-tagN>..N<namespace-tag1>: the segments taken last to first
namespace_tags(data) ==
    IF data = <<>> THEN ""
    ELSE "N" \o namespace_tag(data[Len(data)].data)
             \o namespace_tags(SubSeq(data, 1, Len(data) - 1))

RECURSIVE path_names(_)
\* <path-disambiguator1><path-name1>..<path-disambiguatorN><path-nameN>
path_names(data) ==
    IF data = <<>> THEN ""
    ELSE LET d == Head(data)
             first == At(d.name, 1)
         IN  (IF d.disambiguator > 0 THEN to_disambiguator(d.disambiguator) ELSE "")
             \o ToString(Len(d.name))
             \o (IF IndexOf(DecDigits, first) > 0 \/ first = "_" THEN "_" ELSE "")
             \o d.name
             \o path_names(Tail(data))

\* fn encode_ty_name(tcx, def_id) -> String
encode_ty_name(did) ==
    Then(def_path(did), LAMBDA dp :
    IF \E i \in 1..Len(dp.data) : namespace_tag(dp.data[i].data) = "" \/ dp.data[i].name = ""
    THEN [s |-> "", fatal |-> TRUE]
    ELSE [s |-> namespace_tags(dp.data)
                \o "C" \o to_disambiguator(stable_crate_id(dp.krate))
                \o ToString(Len(crate_name(dp.krate))) \o crate_name(dp.krate)
                \o path_names(dp.data),
          fatal |-> FALSE])

\* u<length><name> of a definition
vendor_name(did, e) ==
    Then(encode_ty_name(did), LAMBDA name :
    IF name.fatal THEN EncBug(e) ELSE Enc("u" \o ToString(Len(name.s)) \o name.s, e))

\* fn encode_region(region, dict) -> String
encode_region(region, e) ==
    CASE region.r = "ReBound" ->
            compress_at(e, DictKey_Region(region),
                        "u6regionI"
                        \o (IF region.debruijn > 0 THEN to_disambiguator(region.debruijn) ELSE "")
                        \o ToString(region.var) \o "E")
      [] region.r = "ReErased" -> compress_at(e, DictKey_Region(region), "u6region")
      [] OTHER -> EncBug(e)

\* Integer::from_int_ty(&tcx, ity).size(), in bits
int_size(ity) ==
    CASE ity = "I8" -> 8 [] ity = "I16" -> 16 [] ity = "I32" -> 32 [] ity = "I64" -> 64
      [] ity = "I128" -> 128 [] OTHER -> pointer_width

\* Size::sign_extend(bits) as i128.  Bit patterns of the model stay below 2^16, so
\* for a size above 16 bits the sign bit is clear and the value is the pattern.
sign_extend(size, bits) ==
    IF size <= 16 /\ bits >= 2 ^ (size - 1) THEN bits - 2 ^ size ELSE bits

\* the builtin types of the Itanium C++ ABI that are not compressed
builtin_types ==
    {"v", "w", "b", "c", "a", "h", "s", "t", "i", "j", "l", "m", "x", "y", "n", "o", "f", "d",
     "e", "g", "z", "Dh"}

int_name(t) ==
    CASE t.k = "Int" /\ t.ity = "I8" -> "u2i8"
      [] t.k = "Int" /\ t.ity = "I16" -> "u3i16"
      [] t.k = "Int" /\ t.ity = "I32" -> "u3i32"
      [] t.k = "Int" /\ t.ity = "I64" -> "u3i64"
      [] t.k = "Int" /\ t.ity = "I128" -> "u4i128"
      [] t.k = "Int" /\ t.ity = "Isize" -> "u5isize"
      [] t.k = "Uint" /\ t.uty = "U8" -> "u2u8"
      [] t.k = "Uint" /\ t.uty = "U16" -> "u3u16"
      [] t.k = "Uint" /\ t.uty = "U32" -> "u3u32"
      [] t.k = "Uint" /\ t.uty = "U64" -> "u3u64"
      [] t.k = "Uint" /\ t.uty = "U128" -> "u4u128"
      [] t.k = "Uint" /\ t.uty = "Usize" -> "u5usize"
      [] OTHER -> ""

float_name(fty) ==
    CASE fty = "F16" -> "Dh" [] fty = "F32" -> "f" [] fty = "F64" -> "d" [] OTHER -> "g"

RECURSIVE encode(_, _, _, _)


\* what encode_const prints of a value of type c.ty; "" stands for a bug!
const_literal(c) ==
    CASE c.ty.k = "Int" ->
            Then(sign_extend(int_size(c.ty.ity), c.bits), LAMBDA val :
            (IF val < 0 THEN "n" ELSE "") \o ToString(val))
      [] c.ty.k = "Uint" -> ToString(c.bits)
      [] c.ty.k = "Bool" /\ c.bits \in {0, 1} -> IF c.bits = 1 THEN "true" ELSE "false"
      [] OTHER -> ""

\* fn encode_const(tcx, c, dict, options) -> String
encode_const(c, e, opts) ==
    IF c.ck \notin {"Param", "Value"} THEN EncBug(e)
    ELSE Then(encode("encode_ty", c.ty, e, opts), LAMBDA t :
         IF c.ck = "Param" THEN compress_at(t.e, DictKey_Const(c), "L" \o t.s \o "E")
         ELSE IF const_literal(c) = "" THEN EncBug(t.e)
         ELSE compress_at(t.e, DictKey_Const(c), "L" \o t.s \o const_literal(c) \o "E"))

\* one type folded by type_folder and then encoded; the folder after it is
\* returned beside the string
encode_folded(t, tf, e, opts) ==
    Then(fold_ty(tf, t), LAMBDA r :
    IF r.fatal THEN [s |-> "", e |-> [e EXCEPT !.fatal = TRUE], tf |-> r.tf]
    ELSE Then(encode("encode_ty", r.v, e, opts), LAMBDA x :
         [s |-> x.s, e |-> x.e, tf |-> r.tf]))

\* the for loop of encode_fnsig over fn_sig.inputs()
RECURSIVE encode_inputs(_, _, _, _)
encode_inputs(tys, tf, e, opts) ==
    IF tys = <<>> \/ e.fatal THEN Enc("", e)
    ELSE Then(encode_folded(Head(tys), tf, e, opts), LAMBDA h :
         Then(encode_inputs(Tail(tys), h.tf, h.e, opts), LAMBDA r :
         Enc(h.s \o r.s, r.e)))

\* fn encode_fnsig(tcx, fn_sig, dict, options) -> String
encode_fnsig(fn_sig, e, opts) ==
    IF ~from_bits(opts).some THEN EncBug(e)
    ELSE Then(IF fn_sig.abi = "C" THEN opts \cup {GENERALIZE_REPR_C}
              ELSE opts \ {GENERALIZE_REPR_C}, LAMBDA encode_ty_options :
         Then(encode_folded(fn_sig.output, TransformTy_new(opts), e, encode_ty_options),
              LAMBDA out :
         Then(encode_inputs(fn_sig.inputs, out.tf, out.e, encode_ty_options), LAMBDA ins :
         Enc("F" \o out.s
                 \o (IF fn_sig.inputs # <<>>
                     THEN ins.s \o (IF fn_sig.c_variadic THEN "z" ELSE "")
                     ELSE IF fn_sig.c_variadic THEN "z" ELSE "v")
                 \o "E",
             ins.e))))

\* fn encode_predicate(tcx, predicate, dict, options) -> String
encode_predicate(predicate, e, opts) ==
    Then(vendor_name(predicate.did, e), LAMBDA name :
    IF predicate.p \notin {"Trait", "Projection"}
    THEN compress_at(name.e, DictKey_Predicate(predicate), name.s)
    ELSE Then(encode("encode_args", predicate.args, name.e, opts), LAMBDA a :
         IF predicate.p = "Trait"
         THEN compress_at(a.e, DictKey_Predicate(predicate), name.s \o a.s)
         ELSE Then(encode(IF predicate.term.g = "Type" THEN "encode_ty" ELSE "encode_const",
                          predicate.term.v, a.e, opts), LAMBDA t :
              compress_at(t.e, DictKey_Predicate(predicate), name.s \o a.s \o t.s))))

\* fn encode_predicates(tcx, predicates, dict, options) -> String
encode_predicates(predicates, e, opts) ==
    IF predicates = <<>> \/ e.fatal THEN Enc("", e)
    ELSE Then(encode("encode_predicate", Head(predicates), e, opts), LAMBDA h :
         Then(encode("encode_predicates", Tail(predicates), h.e, opts), LAMBDA r :
         Enc(h.s \o r.s, r.e)))

\* the for loop of encode_args
encode_arg_list(args, e, opts) ==
    IF args = <<>> \/ e.fatal THEN Enc("", e)
    ELSE Then(IF Head(args).g = "Lifetime" THEN encode_region(Head(args).v, e)
              ELSE encode(IF Head(args).g = "Type" THEN "encode_ty" ELSE "encode_const",
                          Head(args).v, e, opts), LAMBDA h :
         Then(encode("encode_arg_list", Tail(args), h.e, opts), LAMBDA r :
         Enc(h.s \o r.s, r.e)))

\* fn encode_args(tcx, args, dict, options) -> String
encode_args(args, e, opts) ==
    IF args = <<>> THEN Enc("", e)
    ELSE Then(encode("encode_arg_list", args, e, opts), LAMBDA r :
         Enc("I" \o r.s \o "E", r.e))

\* the for loop over the element types of a tuple
encode_tys(tys, e, opts) ==
    IF tys = <<>> \/ e.fatal THEN Enc("", e)
    ELSE Then(encode("encode_ty", Head(tys), e, opts), LAMBDA h :
         Then(encode("encode_tys", Tail(tys), h.e, opts), LAMBDA r :
         Enc(h.s \o r.s, r.e)))

\* <name><args> of a definition with generic arguments, compressed under the type
encode_ty_path(ty, args, e, opts) ==
    Then(vendor_name(ty.did, e), LAMBDA name :
    Then(encode("encode_args", args, name.e, opts), LAMBDA a :
    compress_at(a.e, DictKey_Ty(ty, "None"), name.s \o a.s)))

encode_ty_adt_compresses_builtin(ty, e, opts) ==
    Then(cfi_encoding(ty.did), LAMBDA cfi :
    IF cfi.attr THEN
        IF ~cfi.has_value THEN EncBug(e)
        ELSE Then(trim(cfi.value), LAMBDA str :
             IF str # "" THEN
                 IF str \in builtin_types THEN compress_at(e, DictKey_Ty(ty, "None"), str)
                 ELSE Enc(str, e)
             ELSE Enc("", EmitErr(e)))
    ELSE IF GENERALIZE_REPR_C \in opts /\ adt_def(ty.did).repr_c THEN
        Then(item_name(ty.did), LAMBDA name :
        compress_at(e, DictKey_Ty(ty, "None"), ToString(Len(name)) \o name))
    ELSE encode_ty_path(ty, ty.args, e, opts))

\* the ty::Adt(adt_def, args) arm of encode_ty
encode_ty_adt(ty, e, opts) ==
    Then(cfi_encoding(ty.did), LAMBDA cfi :
    IF cfi.attr THEN
        IF ~cfi.has_value THEN EncBug(e)
        ELSE Then(trim(cfi.value), LAMBDA str :
             IF str # "" THEN
                 IF str \notin builtin_types THEN compress_at(e, DictKey_Ty(ty, "None"), str)
                 ELSE Enc(str, e)
             ELSE Enc("", EmitErr(e)))
    ELSE IF GENERALIZE_REPR_C \in opts /\ adt_def(ty.did).repr_c THEN
        Then(item_name(ty.did), LAMBDA name :
        compress_at(e, DictKey_Ty(ty, "None"), ToString(Len(name)) \o name))
    ELSE encode_ty_path(ty, ty.args, e, opts))

\* the ty::Foreign(def_id) arm of encode_ty
encode_ty_foreign(ty, e) ==
    Then(cfi_encoding(ty.did), LAMBDA cfi :
    IF cfi.attr THEN
        IF ~cfi.has_value THEN EncBug(e)
        ELSE Then(trim(cfi.value), LAMBDA str :
             compress_at(IF str # "" THEN e ELSE EmitErr(e), DictKey_Ty(ty, "None"), str))
    ELSE Then(item_name(ty.did), LAMBDA name :
         compress_at(e, DictKey_Ty(ty, "None"), ToString(Len(name)) \o name)))

\* the ty::Ref(region, ty0, ..) arm of encode_ty
encode_ty_ref(ty, e, opts) ==
    Then(encode("encode_ty", ty.ty, e, opts), LAMBDA t0 :
    Then(compress_at(t0.e, DictKey_Ty(Ref(ty.region, ty.ty, FALSE), "None"),
                     "u3refI" \o t0.s \o "E"), LAMBDA s :
    IF is_mutable_ptr(ty) THEN compress_at(s.e, DictKey_Ty(ty, "Mut"), "U3mut" \o s.s)
    ELSE s))

encode_ty_raw_ptr_one_key(ty, e, opts) ==
    Then(encode("encode_ty", ty.ty, e, opts), LAMBDA t0 :
    Then(IF ~is_mutable_ptr(ty)
         THEN compress_at(t0.e, DictKey_Ty(ty.ty, "None"), "K" \o t0.s)
         ELSE t0, LAMBDA s :
    compress_at(s.e, DictKey_Ty(ty, "None"), "P" \o s.s)))

\* the ty::RawPtr(ptr_ty, _mutbl) arm of encode_ty
encode_ty_raw_ptr(ty, e, opts) ==
    Then(encode("encode_ty", ty.ty, e, opts), LAMBDA t0 :
    Then(IF ~is_mutable_ptr(ty)
         THEN compress_at(t0.e, DictKey_Ty(ty.ty, "Const"), "K" \o t0.s)
         ELSE t0, LAMBDA s :
    compress_at(s.e, DictKey_Ty(ty, "None"), "P" \o s.s)))

wrapper_open_all_vendor(ty) ==
    CASE ty.k = "Array" -> "u5arrayI"
      [] ty.k = "Pat" -> "u3patI"
      [] OTHER -> "u5sliceI"

\* the arms of encode_ty that wrap the encoding of one type: what stands before
\* the type and what stands after it
wrapper_open(ty) ==
    CASE ty.k = "Array" -> "A" \o ToString(ty.len)
      [] ty.k = "Pat" -> "u3patI"
      [] OTHER -> "u5sliceI"

wrapper_close(ty) ==
    CASE ty.k = "Array" -> ""
      [] ty.k = "Pat" -> ty.pat \o "E"
      [] OTHER -> "E"

\* the primitive types that encode_ty writes as one vendor extended name
primitive_name(ty) ==
    CASE ty.k \in {"Int", "Uint"} -> int_name(ty)
      [] ty.k = "Char" -> "u4char"
      [] ty.k = "Str" -> "u3str"
      [] ty.k = "Never" -> "u5never"
      [] OTHER -> "u5param"

encode_ty_unexpected_skipped(ty, e) == Enc("", e)

\* the arm of encode_ty for the types that must not reach it: Alias, Bound,
\* Error, CoroutineWitness, Infer, Placeholder
encode_ty_unexpected(ty, e) == EncBug(e)

\* fn encode_ty(tcx, ty, dict, options) -> String
encode_ty(ty, e, opts) ==
    CASE ty.k = "Bool" -> Enc("b", e)
      [] ty.k = "Float" -> Enc(float_name(ty.fty), e)
      [] ty.k \in {"Int", "Uint", "Char", "Str", "Never", "Param"} ->
            IF primitive_name(ty) = "" THEN EncBug(e)
            ELSE compress_at(e, DictKey_Ty(ty, "None"), primitive_name(ty))
      [] ty.k = "Tuple" ->
            IF is_unit(ty) THEN Enc("v", e)
            ELSE Then(encode("encode_tys", ty.tys, e, opts), LAMBDA r :
                 compress_at(r.e, DictKey_Ty(ty, "None"), "u5tupleI" \o r.s \o "E"))
      [] ty.k \in {"Array", "Pat", "Slice"} ->
            Then(encode("encode_ty", ty.ty, e, opts), LAMBDA r :
            compress_at(r.e, DictKey_Ty(ty, "None"),
                        wrapper_open(ty) \o r.s \o wrapper_close(ty)))
      [] ty.k = "Adt" -> encode_ty_adt(ty, e, opts)
      [] ty.k = "Foreign" -> encode_ty_foreign(ty, e)
      [] ty.k \in {"FnDef", "Closure"} -> encode_ty_path(ty, ty.args, e, opts)
      [] ty.k \in {"CoroutineClosure", "Coroutine"} ->
            encode_ty_path(ty, SubSeq(ty.args, 1, ty.nparent), e, opts)
      [] ty.k = "Ref" -> encode_ty_ref(ty, e, opts)
      [] ty.k = "RawPtr" -> encode_ty_raw_ptr(ty, e, opts)
      [] ty.k = "FnPtr" ->
            Then(encode("encode_fnsig", ty.sig, e, {}), LAMBDA r :
            compress_at(r.e, DictKey_Ty(ty, "None"), "P" \o r.s))
      [] ty.k = "Dynamic" ->
            Then(encode("encode_predicates", ty.preds, e, opts), LAMBDA ps :
            Then(encode_region(ty.region, ps.e), LAMBDA rg :
            compress_at(rg.e, DictKey_Ty(ty, "None"),
                        (IF ty.kind = "Dyn" THEN "u3dynI" ELSE "u7dynstarI")
                        \o ps.s \o rg.s \o "E")))
      [] OTHER -> encode_ty_unexpected(ty, e)

\* a call of one encoder by another: `what` names the function called
encode(what, x, e, opts) ==
    CASE what = "encode_ty" -> encode_ty(x, e, opts)
      [] what = "encode_tys" -> encode_tys(x, e, opts)
      [] what = "encode_const" -> encode_const(x, e, opts)
      [] what = "encode_fnsig" -> encode_fnsig(x, e, opts)
      [] what = "encode_predicate" -> encode_predicate(x, e, opts)
      [] what = "encode_predicates" -> encode_predicates(x, e, opts)
      [] what = "encode_arg_list" -> encode_arg_list(x, e, opts)
      [] what = "encode_args" -> encode_args(x, e, opts)


----------------------------------------------------------------------------
(* typeid_for_fnabi, in the steps of its body *)

\* FnAbi and ArgAbi, as far as typeid_for_fnabi reads them
FnAbi(conv, ret_ty, args, c_variadic, fixed_count) ==
    [conv |-> conv, ret |-> ret_ty, args |-> args, c_variadic |-> c_variadic,
     fixed_count |-> fixed_count]
ArgAbi(ty, mode) == [ty |-> ty, mode |-> mode]

\* the locals of typeid_for_fnabi
FnAbiState(id, e, tf, pushed, ps) ==
    [typeid |-> id, e |-> e, tf |-> tf, pushed_arg |-> pushed, parts |-> ps]

fnabi_encode_ty_options_keeps_bit(abi, opts) ==
    IF abi.conv = "C" THEN opts \cup {GENERALIZE_REPR_C} ELSE opts

\* encode_ty_options after the match on fn_abi.conv
fnabi_encode_ty_options(abi, opts) ==
    IF abi.conv = "C" THEN opts \cup {GENERALIZE_REPR_C} ELSE opts \ {GENERALIZE_REPR_C}

\* the arguments the loops of typeid_for_fnabi go through
fnabi_arg_count(abi) == IF abi.c_variadic THEN abi.fixed_count ELSE Len(abi.args)

\* one type folded, encoded and pushed onto typeid
fnabi_push_ty(st, abi, opts, t) ==
    Then(encode_folded(t, st.tf, st.e, fnabi_encode_ty_options(abi, opts)), LAMBDA x :
    FnAbiState(st.typeid \o x.s, x.e, x.tf, st.pushed_arg, Append(st.parts, x.s)))

\* from the start of typeid_for_fnabi to the encoded return type
fnabi_begin(abi, opts) ==
    Then(FnAbiState("_Z" \o "TS" \o "F", EncState(EmptyDict), TransformTy_new(opts),
                    FALSE, <<>>), LAMBDA st0 :
    IF ~from_bits(opts).some THEN [st0 EXCEPT !.e.fatal = TRUE]
    ELSE fnabi_push_ty(st0, abi, opts, abi.ret))

fnabi_arg_takes_ignored(st, abi, opts, i) ==
    IF i >= Len(abi.args) THEN [st EXCEPT !.e.fatal = TRUE]
    ELSE fnabi_push_ty([st EXCEPT !.pushed_arg = TRUE], abi, opts, abi.args[i + 1].ty)

\* one turn of the loop over the arguments: fn_abi.args[i] (counted from 0)
fnabi_arg(st, abi, opts, i) ==
    IF i >= Len(abi.args) THEN [st EXCEPT !.e.fatal = TRUE]
    ELSE IF abi.args[i + 1].mode = "Ignore" THEN st
    ELSE fnabi_push_ty([st EXCEPT !.pushed_arg = TRUE], abi, opts, abi.args[i + 1].ty)

fnabi_end_always_v(st, abi, opts) ==
    [st EXCEPT !.typeid =
        @ \o (IF ~st.pushed_arg THEN "v" ELSE "") \o (IF abi.c_variadic THEN "z" ELSE "")
          \o "E"
          \o (IF NORMALIZE_INTEGERS \in opts THEN ".normalized" ELSE "")
          \o (IF GENERALIZE_POINTERS \in opts THEN ".generalized" ELSE "")]

fnabi_end_suffix_swapped(st, abi, opts) ==
    [st EXCEPT !.typeid =
        @ \o (IF abi.c_variadic THEN "z" ELSE IF ~st.pushed_arg THEN "v" ELSE "")
          \o "E"
          \o (IF GENERALIZE_POINTERS \in opts THEN ".generalized" ELSE "")
          \o (IF NORMALIZE_INTEGERS \in opts THEN ".normalized" ELSE "")]

\* from the end of the loop to the returned string
fnabi_end(st, abi, opts) ==
    [st EXCEPT !.typeid =
        @ \o (IF abi.c_variadic THEN "z" ELSE IF ~st.pushed_arg THEN "v" ELSE "")
          \o "E"
          \o (IF NORMALIZE_INTEGERS \in opts THEN ".normalized" ELSE "")
          \o (IF GENERALIZE_POINTERS \in opts THEN ".generalized" ELSE "")]

RECURSIVE fnabi_args(_, _, _, _)
\* the loop over the arguments from index i on
fnabi_args(st, abi, opts, i) ==
    IF i >= fnabi_arg_count(abi) \/ st.e.fatal THEN st
    ELSE fnabi_args(fnabi_arg(st, abi, opts, i), abi, opts, i + 1)

\* pub fn typeid_for_fnabi(tcx, fn_abi, options) -> String
typeid_for_fnabi(abi, opts) ==
    Then(fnabi_args(fnabi_begin(abi, opts), abi, opts, 0), LAMBDA st :
    IF st.e.fatal THEN st ELSE fnabi_end(st, abi, opts))


----------------------------------------------------------------------------
(* Instances, and what tcx answers about methods, impls and traits *)

\* ty::InstanceDef: Item(def_id), Virtual(def_id, slot), VTableShim(def_id) and
\* DropGlue(def_id, ty), the Option<Ty> of drop glue being a sequence of at most
\* one type
Item(did) == [kind |-> "Item", did |-> did, idx |-> 0, ty |-> <<>>]
Virtual(did, idx) == [kind |-> "Virtual", did |-> did, idx |-> idx, ty |-> <<>>]
VTableShim(did) == [kind |-> "VTableShim", did |-> did, idx |-> 0, ty |-> <<>>]
DropGlue(did, ty) == [kind |-> "DropGlue", did |-> did, idx |-> 0, ty |-> ty]

\* ty::Instance
Instance(def, args) == [def |-> def, args |-> args]

\* ty::TraitRef
TraitRef(did, args) == [did |-> did, args |-> args]

\* tcx.lang_items().drop_in_place_fn() and .drop_trait()
drop_in_place_fn == Some("drop_in_place")
drop_trait == Some("Drop")

\* tcx.trait_of_item(def_id): the trait a method is declared in
trait_of_item(did) ==
    CASE did \in {"Trait1::foo", "Trait1::gen", "Trait1::take"} -> Some("Trait1")
      [] did = "Trait2::get" -> Some("Trait2")
      [] did = "Trait3::bar" -> Some("Trait3")
      [] did = "Trait4::put" -> Some("Trait4")
      [] did = "Trait5::five" -> Some("Trait5")
      [] did = "FnOnce::call_once" -> Some("FnOnce")
      [] did = "Future::poll" -> Some("Future")
      [] OTHER -> None

\* tcx.impl_of_method(def_id)
impl_of_method(did) ==
    CASE did \in {"impl1::foo", "impl1::gen"} -> Some("impl1")
      [] did = "impl2::foo" -> Some("impl2")
      [] did = "impl3::get" -> Some("impl3")
      [] did = "impl4::get" -> Some("impl4")
      [] did = "impl5::bar" -> Some("impl5")
      [] did = "impl6::put" -> Some("impl6")
      [] did = "impl7::inh" -> Some("impl7")
      [] did = "impl8::five" -> Some("impl8")
      [] OTHER -> None

\* tcx.impl_trait_ref(impl_id), over the parameters of the impl
impl_trait_ref(impl_id) ==
    CASE impl_id = "impl1" -> Some(TraitRef("Trait1", <<Type(Adt("Struct1", <<>>))>>))
      [] impl_id = "impl2" -> Some(TraitRef("Trait1", <<Type(ty_Int("I32"))>>))
      [] impl_id = "impl3" -> Some(TraitRef("Trait2", <<Type(Adt("Struct1", <<>>))>>))
      [] impl_id = "impl4" ->
            Some(TraitRef("Trait2", <<Type(Adt("Gen1", <<Type(Param(0))>>))>>))
      [] impl_id = "impl5" -> Some(TraitRef("Trait3", <<Type(Adt("Struct1", <<>>))>>))
      [] impl_id = "impl6" ->
            Some(TraitRef("Trait4", <<Type(Adt("Gen1", <<Type(Param(0))>>)), Type(Param(0))>>))
      [] impl_id = "impl8" -> Some(TraitRef("Trait5", <<Type(Adt("Struct1", <<>>))>>))
      [] OTHER -> None

\* the number of generic parameters of an impl
impl_generics_count(impl_id) == IF impl_id \in {"impl4", "impl6"} THEN 1 ELSE 0

\* the number of generic parameters of a trait, Self included
trait_generics_count(trait_id) == IF trait_id \in {"Trait4", "FnOnce"} THEN 2 ELSE 1

\* tcx.associated_item(def_id).trait_item_def_id
trait_item_def_id(did) ==
    CASE did \in {"impl1::foo", "impl2::foo"} -> Some("Trait1::foo")
      [] did = "impl1::gen" -> Some("Trait1::gen")
      [] did \in {"impl3::get", "impl4::get"} -> Some("Trait2::get")
      [] did = "impl5::bar" -> Some("Trait3::bar")
      [] did = "impl6::put" -> Some("Trait4::put")
      [] did = "impl8::five" -> Some("Trait5::five")
      [] OTHER -> None

\* traits::is_vtable_safe_method
is_vtable_safe_method(trait_id, method_id) == method_id # "Trait1::gen"

\* tcx.object_safety_violations(trait_id)
object_safety_violations(trait_id) == IF trait_id = "Trait3" THEN {"SizedSelf"} ELSE {}

\* traits::supertraits: the trait reference itself, then those it inherits from
supertraits(trait_ref) ==
    IF trait_ref.did = "Trait5"
    THEN <<trait_ref, TraitRef("Trait2", <<trait_ref.args[1]>>)>>
    ELSE <<trait_ref>>

\* the associated types of a trait in the order of their definition
assoc_types(trait_id) ==
    CASE trait_id = "Trait2" -> <<"Trait2::Out">>
      [] trait_id = "Trait5" -> <<"Trait5::Aux">>
      [] trait_id = "FnOnce" -> <<"FnOnce::Output">>
      [] trait_id = "Future" -> <<"Future::Output">>
      [] OTHER -> <<>>

\* the first method of a trait in the order of its definition
first_method(trait_id) ==
    CASE trait_id = "FnOnce" -> Some("FnOnce::call_once")
      [] trait_id = "Future" -> Some("Future::poll")
      [] OTHER -> None

\* tcx.fn_sig(def_id), over the parameters of the definition
fn_sig(did) ==
    CASE did = "foo1" -> FnSig("Rust", unit, <<ty_Int("I32")>>, FALSE)
      [] did \in {"Trait1::foo", "Trait1::gen"} ->
            FnSig("Rust", unit, <<Ref(ReErased, Param(0), FALSE), ty_Int("I32")>>, FALSE)
      [] did \in {"impl1::foo", "impl1::gen"} ->
            FnSig("Rust", unit,
                  <<Ref(ReErased, Adt("Struct1", <<>>), FALSE), ty_Int("I32")>>, FALSE)
      [] did = "impl2::foo" ->
            FnSig("Rust", unit, <<Ref(ReErased, ty_Int("I32"), FALSE), ty_Int("I32")>>, FALSE)
      [] did = "Trait2::get" ->
            FnSig("Rust", Alias("Trait2::Out", <<Type(Param(0))>>),
                  <<Ref(ReErased, Param(0), FALSE)>>, FALSE)
      [] did = "impl3::get" ->
            FnSig("Rust", ty_Int("I32"), <<Ref(ReErased, Adt("Struct1", <<>>), FALSE)>>, FALSE)
      [] did = "impl4::get" ->
            FnSig("Rust", Param(0),
                  <<Ref(ReErased, Adt("Gen1", <<Type(Param(0))>>), FALSE)>>, FALSE)
      [] did = "Trait4::put" ->
            FnSig("Rust", unit, <<Ref(ReErased, Param(0), FALSE), Param(1)>>, FALSE)
      [] did = "impl6::put" ->
            FnSig("Rust", unit,
                  <<Ref(ReErased, Adt("Gen1", <<Type(Param(0))>>), FALSE), Param(0)>>, FALSE)
      [] did = "Trait5::five" ->
            FnSig("Rust", unit, <<Ref(ReErased, Param(0), TRUE)>>, FALSE)
      [] did = "impl8::five" ->
            FnSig("Rust", unit, <<Ref(ReErased, Adt("Struct1", <<>>), TRUE)>>, FALSE)
      [] did = "Trait1::take" -> FnSig("Rust", unit, <<Param(0)>>, FALSE)
      [] did = "drop_in_place" -> FnSig("Rust", unit, <<RawPtr(Param(0), TRUE)>>, FALSE)
      [] did = "FnOnce::call_once" ->
            FnSig("Rust", Alias("FnOnce::Output", <<Type(Param(0)), Type(Param(1))>>),
                  <<Param(0), Param(1)>>, FALSE)
      [] did = "Future::poll" ->
            FnSig("Rust", Alias("Future::Output", <<Type(Param(0))>>),
                  <<Ref(ReErased, Param(0), TRUE)>>, FALSE)
      [] did \in {"foo1::closure", "foo1::async"} ->
            FnSig("Rust", closure_like(did).v.output, <<Param(0)>>, FALSE)
      [] OTHER -> FnSig("Rust", unit, <<Ref(ReErased, Adt("Struct1", <<>>), FALSE)>>, FALSE)

----------------------------------------------------------------------------
(* The instance canonicalizer: typeid_for_instance *)

\* the outcome of a step that may end in bug!, a failed assert! or expect
Ok(v) == [v |-> v, fatal |-> FALSE]
Bug == [v |-> "", fatal |-> TRUE]
Try(r, F(_)) == IF r.fatal THEN Bug ELSE F(r.v)

\* Iterator::skip(1)
skip1(xs) == IF xs = <<>> THEN <<>> ELSE Tail(xs)

\* tcx.mk_args_trait(self_ty, rest)
mk_args_trait(self_ty, rest) == <<Type(self_ty)>> \o rest

\* GenericArgs::type_at(0)
type_at0(args) == IF args # <<>> /\ args[1].g = "Type" THEN Ok(args[1].v) ELSE Bug

\* ty::TraitRef::from_method: the arguments of the method cut to those of the trait
from_method(trait_id, args) ==
    TraitRef(trait_id, SubSeq(args, 1, trait_generics_count(trait_id)))

\* ty::ExistentialTraitRef::erase_self_ty
erase_self_ty(trait_ref) == ExTrait(trait_ref.did, skip1(trait_ref.args))

\* GenericArgs::rebase_onto(tcx, impl_id, target): target, then the arguments
\* past those of the impl
rebase_onto(args, impl_id, target) ==
    target \o SubSeq(args, impl_generics_count(impl_id) + 1, Len(args))

\* TypeVisitableExt::has_non_region_param
has_non_region_param(trait_ref) == \E t \in walk_list(trait_ref.args) : t.k = "Param"

\* the place ExistentialPredicate::stable_cmp gives a projection
stable_rank(q) == IF q.did = "Trait2::Out" THEN 0 ELSE 1

\* sort_by over stable_cmp
sort_by_stable_cmp(preds) ==
    SelectSeq(preds, LAMBDA q : stable_rank(q) = 0)
        \o SelectSeq(preds, LAMBDA q : stable_rank(q) # 0)

\* the projections of the associated types of one supertrait
assoc_preds_of(super_trait_ref) ==
    [i \in 1..Len(assoc_types(super_trait_ref.did)) |->
        ExProjection(assoc_types(super_trait_ref.did)[i],
                     erase_self_ty(super_trait_ref).args,
                     Type(normalize_erasing_regions(
                              Alias(assoc_types(super_trait_ref.did)[i],
                                    super_trait_ref.args))))]

RECURSIVE assoc_preds(_)

\* the flat_map of trait_object_ty over the supertraits
assoc_preds(supers) ==
    IF supers = <<>> THEN <<>>
    ELSE assoc_preds_of(Head(supers)) \o assoc_preds(Tail(supers))

trait_object_ty(trait_ref) ==
    IF has_non_region_param(trait_ref) THEN Bug
    ELSE Ok(Dynamic(<<erase_self_ty(trait_ref)>>
                        \o sort_by_stable_cmp(assoc_preds(supertraits(trait_ref))),
                    ReErased, "Dyn"))

strip_receiver_auto(ty) ==
    IF ty.k # "Dynamic" THEN Bug
    ELSE IF ty.preds # <<>> /\ ty.preds[1].p = "Trait"
    THEN Ok(Dynamic(SelectSeq(ty.preds, LAMBDA q : q.p # "AutoTrait"), ty.region, ty.kind))
    ELSE Ok(unit)

\* the synthesized Drop trait object
dyn_drop(def_id) == Dynamic(<<ExTrait(def_id, <<>>)>>, ReErased, "Dyn")

\* typeid_for_instance, the drop glue branch keeping the arguments of the instance
instance_receiver_keeps_drop_self(instance) ==
    CASE instance.def.kind = "DropGlue" -> Ok(instance)
      [] instance.def.kind = "Virtual" ->
            Try(IF trait_of_item(instance.def.did).some
                THEN trait_object_ty(from_method(trait_of_item(instance.def.did).v,
                                                 instance.args))
                ELSE type_at0(instance.args), LAMBDA upcast_ty :
            Try(strip_receiver_auto(upcast_ty), LAMBDA stripped_ty :
            Ok([instance EXCEPT !.args = mk_args_trait(stripped_ty, skip1(instance.args))])))
      [] OTHER -> Ok(instance)

\* typeid_for_instance, first if: the receiver of drop glue, of a virtual call
\* and of a vtable shim
instance_receiver(instance) ==
    CASE \/ instance.def.kind = "Virtual" /\ Some(instance.def.did) = drop_in_place_fn
         \/ instance.def.kind = "DropGlue" ->
            IF drop_trait.some
            THEN Ok([instance EXCEPT !.args = mk_args_trait(dyn_drop(drop_trait.v), <<>>)])
            ELSE Bug
      [] instance.def.kind = "Virtual" /\ Some(instance.def.did) # drop_in_place_fn ->
            Try(IF trait_of_item(instance.def.did).some
                THEN trait_object_ty(from_method(trait_of_item(instance.def.did).v,
                                                 instance.args))
                ELSE type_at0(instance.args), LAMBDA upcast_ty :
            Try(strip_receiver_auto(upcast_ty), LAMBDA stripped_ty :
            Ok([instance EXCEPT !.args = mk_args_trait(stripped_ty, skip1(instance.args))])))
      [] instance.def.kind = "VTableShim" /\ trait_of_item(instance.def.did).some ->
            Try(trait_object_ty(TraitRef(trait_of_item(instance.def.did).v, instance.args)),
                LAMBDA invoke_ty :
            Ok([instance EXCEPT !.args = mk_args_trait(invoke_ty, skip1(instance.args))]))
      [] OTHER -> Ok(instance)

\* typeid_for_instance, the walk back from a method of an impl, keeping the
\* concrete Self
instance_of_trait_method_keeps_self(instance, impl_id, trait_ref) ==
    IF ~trait_item_def_id(instance.def.did).some THEN Bug
    ELSE IF /\ is_vtable_safe_method(trait_ref.did, trait_item_def_id(instance.def.did).v)
            /\ object_safety_violations(trait_ref.did) = {}
    THEN Ok(Instance(Virtual(trait_item_def_id(instance.def.did).v, 0),
                     rebase_onto(instance.args, impl_id,
                                 instantiate_list(trait_ref.args, instance.args))))
    ELSE Ok(instance)

\* typeid_for_instance, the walk back from a method of an impl to the method of
\* the trait, called on the trait object
instance_of_trait_method(instance, impl_id, trait_ref) ==
    IF ~trait_item_def_id(instance.def.did).some THEN Bug
    ELSE IF /\ is_vtable_safe_method(trait_ref.did, trait_item_def_id(instance.def.did).v)
            /\ object_safety_violations(trait_ref.did) = {}
    THEN Then(TraitRef(trait_ref.did, instantiate_list(trait_ref.args, instance.args)),
              LAMBDA instantiated :
         Try(trait_object_ty(instantiated), LAMBDA invoke_ty :
         Ok(Instance(Virtual(trait_item_def_id(instance.def.did).v, 0),
                     rebase_onto(instance.args, impl_id,
                                 mk_args_trait(invoke_ty, skip1(instantiated.args)))))))
    ELSE Ok(instance)

\* Instance::ty of a closure-like definition
instance_ty(instance, kind) ==
    CASE kind = "Closure" -> Closure(instance.def.did, instance.args)
      [] kind = "Coroutine" -> Coroutine(instance.def.did, instance.args, 0)
      [] kind = "CoroutineClosure" -> CoroutineClosure(instance.def.did, instance.args, 0)
      [] OTHER -> FnDef(instance.def.did, instance.args)

\* typeid_for_instance, a closure or a coroutine: the only method of the trait
\* it is defined on, called on the trait object
instance_of_closure(instance, info) ==
    IF info.k \notin {"Closure", "Coroutine", "CoroutineClosure"} THEN Bug
    ELSE Then(TraitRef(info.trait_id,
                       mk_args_trait(instance_ty(instance, info.k),
                                     IF info.inputs.some THEN <<Type(info.inputs.v)>>
                                     ELSE <<>>)), LAMBDA trait_ref :
         Try(trait_object_ty(trait_ref), LAMBDA invoke_ty :
         IF ~first_method(info.trait_id).some THEN Bug
         ELSE Ok(Instance(Virtual(first_method(info.trait_id).v, 0),
                          mk_args_trait(invoke_ty, skip1(trait_ref.args))))))

\* typeid_for_instance, second if: without USE_CONCRETE_SELF the instance is
\* replaced by the virtual call it answers
instance_abstract(instance, opts) ==
    IF USE_CONCRETE_SELF \in opts THEN Ok(instance)
    ELSE IF /\ impl_of_method(instance.def.did).some
            /\ impl_trait_ref(impl_of_method(instance.def.did).v).some
    THEN instance_of_trait_method(instance, impl_of_method(instance.def.did).v,
                                  impl_trait_ref(impl_of_method(instance.def.did).v).v)
    ELSE IF closure_like(instance.def.did).some
    THEN instance_of_closure(instance, closure_like(instance.def.did).v)
    ELSE Ok(instance)

\* a type of the signature over the arguments of the instance, normalized
resolve(t, args) ==
    Then(instantiate(t, args), LAMBDA u :
    IF u.k = "Alias" THEN normalize_erasing_regions(u) ELSE u)

\* fn_sig_for_fn_abi: the signature of the definition over the arguments of the
\* instance, normalized; a vtable shim takes its receiver by raw pointer
fn_sig_for_fn_abi(instance) ==
    Then(fn_sig(instance.def.did), LAMBDA sig :
    [sig EXCEPT !.output = resolve(@, instance.args),
                !.inputs = [i \in 1..Len(@) |->
                               IF i = 1 /\ instance.def.kind = "VTableShim"
                               THEN RawPtr(resolve(@[i], instance.args), TRUE)
                               ELSE resolve(@[i], instance.args)]])

\* tcx.fn_abi_of_instance: the vtable slot of a virtual call has no part in it
fn_abi_of_instance(instance) ==
    Then(fn_sig_for_fn_abi(instance), LAMBDA sig :
    IF Error \in walk(sig.output) \cup walk_list(sig.inputs) THEN Bug
    ELSE Ok(FnAbi(sig.abi, sig.output,
                  [i \in 1..Len(sig.inputs) |->
                      ArgAbi(sig.inputs[i],
                             IF is_unit(sig.inputs[i]) THEN "Ignore" ELSE "Direct")],
                  sig.c_variadic, Len(sig.inputs))))

typeid_for_instance(instance, opts) ==
    Try(instance_receiver(instance), LAMBDA adjusted :
    Try(instance_abstract(adjusted, opts), LAMBDA abstract :
    Try(fn_abi_of_instance(abstract), LAMBDA abi :
    Then(typeid_for_fnabi(abi, opts), LAMBDA st :
    IF st.e.fatal THEN Bug ELSE Ok(st.typeid)))))

----------------------------------------------------------------------------
(* The inputs the model draws from *)

SeqsUpTo(S, k) == UNION {[1..m -> S] : m \in 0..k}

AllOptions == TypeIdOptions

PointerWidths == {8, 16, 32, 64, 128}

IntTys ==
    {ty_Int(w) : w \in {"I8", "I16", "I32", "I64", "I128", "Isize"}}
    \cup {ty_Uint(w) : w \in {"U8", "U16", "U32", "U64", "U128", "Usize"}}

FloatTys == {ty_Float(w) : w \in {"F16", "F32", "F64", "F128"}}

Regions == {ReErased, ReBound(0, 0), ReBound(1, 2), ReStatic}

\* types with nothing below them
LeafTys ==
    IntTys \cup FloatTys
    \cup {Bool, Char, Str, Never, unit, Param(0), Bound, Error, Infer, Placeholder,
          CoroutineWitness, Alias("Alias1", <<>>), Alias("Alias2", <<>>),
          Foreign("ext1"), Foreign("ext_cfi"), Foreign("ext_empty"),
          Adt("Struct1", <<>>), Adt("type1", <<>>), Adt("c_void", <<>>),
          Adt("WrapZst", <<>>), Adt("WrapCfi", <<>>), Adt("Node", <<>>),
          Adt("CfiNamed", <<>>), Adt("CfiI", <<>>), Adt("CfiEmpty", <<>>),
          Adt("CfiWord", <<>>), Adt("_Under", <<>>), Adt("asm1", <<>>)}

\* one more layer over the types of S
Layer(S) ==
    S
    \cup {Ref(ReErased, t, m) : t \in S, m \in BOOLEAN}
    \cup {RawPtr(t, FALSE) : t \in S}
    \cup {Array(t, 3) : t \in S}
    \cup {Tuple(<<t, ty_Int("I32")>>) : t \in S}
    \cup {Adt("Wrap", <<Type(t)>>) : t \in S}
    \cup {FnPtr(FnSig("C", unit, <<t>>, v)) : t \in S, v \in BOOLEAN}

RECURSIVE TysOfDepth(_)
TysOfDepth(d) == IF d = 0 THEN LeafTys ELSE Layer(TysOfDepth(d - 1))

Tys == TysOfDepth(MaxDepth)

\* slices and pattern types over the types without parts
SliceTys == {Slice(t) : t \in LeafTys} \cup {Pat(t, "1..=9") : t \in IntTys}

\* a type and then a const raw pointer to it; a shared reference to a type and
\* then a mutable reference to it
QualTys ==
    {Tuple(<<t, RawPtr(t, FALSE)>>) : t \in LeafTys}
    \cup {Tuple(<<Ref(ReErased, t, FALSE), Ref(ReErased, t, TRUE)>>) : t \in LeafTys}

\* the types encode_ty is applied to: those, the pair of each with itself, the
\* slices and pattern types, and the pairs of a type with a pointer to it
EncTys == Tys \cup {Tuple(<<t, t>>) : t \in Tys} \cup SliceTys \cup QualTys

ArgTys == {ty_Int("I32"), Ref(ReErased, ty_Uint("Usize"), TRUE), Adt("type1", <<>>)}

\* function pointers whose signatures have every shape of parameter list
FnPtrTys ==
    {FnPtr(FnSig("C", unit, <<>>, FALSE)), FnPtr(FnSig("C", unit, <<>>, TRUE)),
     FnPtr(FnSig("C", unit, <<ty_Float("F64")>>, TRUE)),
     FnPtr(FnSig("Rust", unit, <<ty_Float("F64")>>, FALSE))}

RetTys == {unit, ty_Int("I32"), Param(0)} \cup FnPtrTys

ArgAbis == {ArgAbi(t, "Direct") : t \in ArgTys} \cup {ArgAbi(ty_Int("I32"), "Ignore")}

ConvVariadic == {<<"Rust", FALSE>>, <<"C", FALSE>>, <<"C", TRUE>>}

FnAbisOver(rets, arglists) ==
    UNION {{FnAbi(cv[1], r, a, cv[2], fc) : fc \in (IF cv[2] THEN 0..Len(a) ELSE {Len(a)})} :
           cv \in ConvVariadic, r \in rets, a \in arglists}

FnAbis == FnAbisOver(RetTys, SeqsUpTo(ArgAbis, MaxArgs))

\* signatures over two repr(C) structs and pointers to functions of either
\* calling convention that take one of them
SigArgTys ==
    {Adt("type1", <<>>), Adt("type2", <<>>),
     FnPtr(FnSig("C", unit, <<Adt("type1", <<>>)>>, FALSE)),
     FnPtr(FnSig("Rust", unit, <<Adt("type1", <<>>)>>, FALSE))}

SigFnAbis ==
    {FnAbi(conv, r, a, FALSE, Len(a)) :
        conv \in {"Rust", "C"},
        r \in {unit, Adt("type2", <<>>)},
        a \in SeqsUpTo({ArgAbi(t, "Direct") : t \in SigArgTys}, MaxArgs)}

\* signatures over a generic repr(C) struct, its type argument, and pointers
\* to functions of either calling convention that take the struct
GenCTy == Adt("GenC", <<Type(ty_Int("I32"))>>)

GenArgTys ==
    {GenCTy, ty_Int("I32"),
     FnPtr(FnSig("C", unit, <<GenCTy>>, FALSE)),
     FnPtr(FnSig("Rust", unit, <<GenCTy>>, FALSE))}

GenFnAbis ==
    {FnAbi(conv, r, a, FALSE, Len(a)) :
        conv \in {"Rust", "C"},
        r \in {unit, GenCTy},
        a \in SeqsUpTo({ArgAbi(t, "Direct") : t \in GenArgTys}, MaxArgs)}

\* the calls of a behaviour that remembers its earlier calls
SmallFnAbis ==
    {FnAbi("Rust", r, a, FALSE, Len(a)) :
        r \in {unit, ty_Int("I32"), Adt("Node", <<>>)},
        a \in {<<>>, <<ArgAbi(ty_Int("I32"), "Direct")>>,
               <<ArgAbi(Ref(ReErased, ty_Uint("Usize"), FALSE), "Direct"),
                 ArgAbi(ty_Uint("Usize"), "Direct")>>}}

SmallOptions == {{}, {GENERALIZE_POINTERS, NORMALIZE_INTEGERS}}

\* the instances typeid_for_instance is applied to: calls through a vtable slot,
\* with and without auto traits on the receiver, methods of impls, free
\* functions, closures, drop glue and a vtable shim
DynOf(preds) == Dynamic(preds, ReErased, "Dyn")

Struct1Ty == Adt("Struct1", <<>>)

OutIs(t) == ExProjection("Trait2::Out", <<>>, Type(t))

AuxIs(t) == ExProjection("Trait5::Aux", <<>>, Type(t))

VirtualCalls ==
    {<<"Trait1::foo", <<Type(DynOf(<<ExTrait("Trait1", <<>>)>>))>> >>,
     <<"Trait1::foo", <<Type(DynOf(<<ExTrait("Trait1", <<>>), ExAutoTrait("Send")>>))>> >>,
     <<"Trait2::get", <<Type(DynOf(<<ExTrait("Trait2", <<>>), OutIs(ty_Int("I32"))>>))>> >>,
     <<"Trait2::get", <<Type(DynOf(<<ExTrait("Trait2", <<>>), OutIs(ty_Int("I32")),
                                     ExAutoTrait("Send")>>))>> >>,
     <<"Trait2::get", <<Type(DynOf(<<ExTrait("Trait2", <<>>), OutIs(Bool)>>))>> >>,
     <<"Trait2::get", <<Type(DynOf(<<ExTrait("Trait5", <<>>), OutIs(ty_Int("I32")),
                                     AuxIs(Bool)>>))>> >>,
     <<"Trait4::put", <<Type(DynOf(<<ExTrait("Trait4", <<Type(ty_Int("I32"))>>)>>)),
                        Type(ty_Int("I32"))>> >>,
     <<"Trait5::five", <<Type(DynOf(<<ExTrait("Trait5", <<>>), OutIs(ty_Int("I32")),
                                      AuxIs(Bool)>>))>> >>,
     <<"drop_in_place", <<Type(DynOf(<<ExTrait("Trait1", <<>>)>>))>> >>,
     <<"drop_in_place", <<Type(DynOf(<<ExAutoTrait("Send")>>))>> >>}

VirtualInstances ==
    {Instance(Virtual(c[1], idx), c[2]) : c \in VirtualCalls, idx \in 0..MaxSlot}

ItemInstances ==
    {Instance(Item(did), <<>>) :
        did \in {"foo1", "impl1::foo", "impl1::gen", "impl2::foo", "impl3::get",
                 "impl5::bar", "impl7::inh", "impl8::five", "foo1::closure",
                 "foo1::async"}}
    \cup {Instance(Item(did), <<Type(t)>>) :
            did \in {"impl4::get", "impl6::put"}, t \in {ty_Int("I32"), Bool}}

DroppedTys ==
    {Struct1Ty, ty_Int("I32"), Adt("Gen1", <<Type(Bool)>>), DynOf(<<ExTrait("Trait1", <<>>)>>)}

DropGlueInstances ==
    {Instance(DropGlue("drop_in_place", <<t>>), <<Type(t)>>) : t \in DroppedTys}
    \cup {Instance(DropGlue("drop_in_place", <<>>), <<Type(ty_Int("I32"))>>)}

ShimInstances == {Instance(VTableShim("Trait1::take"), <<Type(Struct1Ty)>>)}

Instances == VirtualInstances \cup ItemInstances \cup DropGlueInstances \cup ShimInstances

----------------------------------------------------------------------------
(* The state machine *)

NoValue == [none |-> TRUE]

\* the locals of the running typeid_for_fnabi
Cur ==
    FnAbiState(typeid, [dict |-> dict, dcx |-> dcx, log |-> log, fatal |-> FALSE],
               type_folder, pushed_arg, parts)

\* the locals after a step that left them as st, and where the call goes on
Store(st) ==
    /\ pc' = IF st.e.fatal THEN "fatal" ELSE IF pc = "start" THEN "args" ELSE pc
    /\ typeid' = st.typeid
    /\ dict' = st.e.dict
    /\ dcx' = st.e.dcx
    /\ log' = st.e.log
    /\ type_folder' = st.tf
    /\ pushed_arg' = st.pushed_arg
    /\ parts' = st.parts

\* the call returns the string of st
Finished(st) ==
    /\ pc' = "done"
    /\ typeid' = st.typeid
    /\ UNCHANGED <<dict, dcx, log, type_folder, pushed_arg, parts>>

fnabi_locals == <<n, typeid, dict, type_folder, dcx, log, pushed_arg, parts>>

\* nothing has run yet
InitLocals ==
    /\ n = 0
    /\ typeid = ""
    /\ dict = {}
    /\ type_folder = TransformTy_new({})
    /\ dcx = 0
    /\ log = <<>>
    /\ pushed_arg = FALSE
    /\ parts = <<>>
    /\ calls = <<>>
    /\ stack = <<>>
    /\ ret = NoValue

\* typeid_for_fnabi is entered: up to the encoded return type
Begin ==
    /\ pc = "start"
    /\ Store(fnabi_begin(fn_abi, options))
    /\ n' = 0
    /\ UNCHANGED <<arg, ret, pointer_width, fn_abi, options, calls, stack>>

\* one turn of the loop over the arguments
Arg ==
    /\ pc = "args"
    /\ n < fnabi_arg_count(fn_abi)
    /\ Store(fnabi_arg(Cur, fn_abi, options, n))
    /\ n' = n + 1
    /\ UNCHANGED <<arg, ret, pointer_width, fn_abi, options, calls, stack>>

\* the loop is over: the parameter list is closed and the suffixes are added
Finish ==
    /\ pc = "args"
    /\ n >= fnabi_arg_count(fn_abi)
    /\ Finished(fnabi_end(Cur, fn_abi, options))
    /\ UNCHANGED <<arg, ret, pointer_width, fn_abi, options, n, calls, stack>>

\* one call of typeid_for_fnabi on a 64-bit target
Init ==
    /\ pc = "start"
    /\ arg = NoValue
    /\ pointer_width = 64
    /\ fn_abi \in FnAbis
    /\ options \in AllOptions
    /\ InitLocals

Next == Begin \/ Arg \/ Finish

Spec == Init /\ [][Next]_vars

\* one call of typeid_for_fnabi on a signature that mentions repr(C) structs
InitSig ==
    /\ pc = "start"
    /\ arg = NoValue
    /\ pointer_width = 64
    /\ fn_abi \in SigFnAbis
    /\ options \in AllOptions
    /\ InitLocals

SpecSig == InitSig /\ [][Next]_vars

\* one call of typeid_for_fnabi on a signature that mentions a generic repr(C)
\* struct
InitGen ==
    /\ pc = "start"
    /\ arg = NoValue
    /\ pointer_width = 64
    /\ fn_abi \in GenFnAbis
    /\ options \in SUBSET {GENERALIZE_POINTERS, NORMALIZE_INTEGERS}
    /\ InitLocals

SpecGen == InitGen /\ [][Next]_vars

\* the caller takes the returned string
Return ==
    /\ pc = "done"
    /\ pc' = "idle"
    /\ calls' = IF Len(calls) < MaxCalls
                THEN Append(calls, [fn_abi |-> fn_abi, options |-> options, typeid |-> typeid])
                ELSE calls
    /\ UNCHANGED <<arg, ret, pointer_width, fn_abi, options, fnabi_locals, stack>>

\* the next call is made
Enter(abi, opts) ==
    /\ pc = "idle"
    /\ pc' = "start"
    /\ fn_abi' = abi
    /\ options' = opts
    /\ UNCHANGED <<arg, ret, pointer_width, fnabi_locals, calls, stack>>

InitCalls ==
    /\ pc = "idle"
    /\ arg = NoValue
    /\ pointer_width = 64
    /\ fn_abi = NoValue
    /\ options = {}
    /\ InitLocals

NextCalls ==
    \/ \E abi \in SmallFnAbis, opts \in SmallOptions : Enter(abi, opts)
    \/ Begin
    \/ Arg
    \/ Finish
    \/ Return

\* call after call, the strings returned by the first calls remembered
SpecCalls == InitCalls /\ [][NextCalls]_vars

----------------------------------------------------------------------------
(* The pure functions applied to inputs drawn from bounded sets *)

InitApply(inputs, widths) ==
    /\ pc = "idle"
    /\ arg \in inputs
    /\ pointer_width \in widths
    /\ fn_abi = NoValue
    /\ options = {}
    /\ InitLocals

Apply(name, output) ==
    /\ pc = "idle"
    /\ pc' = name
    /\ ret' = output
    /\ UNCHANGED <<arg, pointer_width, fn_abi, options, fnabi_locals, calls, stack>>

ToDisambiguator == Apply("to_disambiguator", to_disambiguator(arg))

ToSeqId == Apply("to_seq_id", to_seq_id(arg))

InitCodec == InitApply(0..MaxNum, {64})

NextCodec == ToDisambiguator \/ ToSeqId

\* the codec applied to one number
SpecCodec == InitCodec /\ [][NextCodec]_vars

FoldTy == arg.ty \in Tys /\ Apply("fold_ty", fold_ty(TransformTy_new(arg.options), arg.ty))

EncodeTy ==
    Apply("encode_ty", encode("encode_ty", arg.ty, EncState(EmptyDict), arg.options))

TyOptions == SUBSET {GENERALIZE_POINTERS, NORMALIZE_INTEGERS} \cup {{GENERALIZE_REPR_C}}

InitTy == InitApply([ty : EncTys, options : TyOptions], PointerWidths)

NextTy == FoldTy \/ EncodeTy

\* fold_ty and encode_ty applied to one type, on every target
SpecTy == InitTy /\ [][NextTy]_vars

\* the bit patterns of the values of an integer type: the least and the
\* greatest, and for a type of 8 or 16 bits the patterns around the sign bit
BitsOf(t) ==
    {0, 1, 5}
    \cup (IF t \in {ty_Int("I8"), ty_Uint("U8")} THEN {127, 128, 251, 255}
          ELSE IF t \in {ty_Int("Isize"), ty_Uint("Usize")} THEN {251}
          ELSE {32767, 32768, 65531, 65535})

\* the consts encode_const is applied to: literals of every integer type, of
\* bool and char, literals of types that const generics do not have, const
\* parameters and a const that is neither
Consts ==
    UNION {{ConstValue(t, b) : b \in BitsOf(t)} : t \in IntTys}
    \cup {ConstValue(Bool, b) : b \in {0, 1}}
    \cup {ConstValue(Char, 97), ConstValue(ty_Float("F64"), 0), ConstValue(Str, 0),
          ConstValue(unit, 0), ConstValue(Adt("Struct1", <<>>), 0),
          ConstValue(Error, 0)}
    \cup {ConstParam(ty_Uint("Usize")), ConstParam(Bool), ConstInfer(ty_Uint("Usize"))}

EncodeConst ==
    Apply("encode_const", encode("encode_const", arg.c, EncState(EmptyDict), arg.options))

InitConst == InitApply([c : Consts, options : TyOptions], PointerWidths)

NextConst == EncodeConst

\* encode_const applied to one const, on every target
SpecConst == InitConst /\ [][NextConst]_vars

\* repr(transparent) structs that refer to themselves: through a pointer, through
\* the argument of a generic struct, beside a zero-sized marker that names the
\* struct, and two by two
SelfTys ==
    {Adt(d, <<>>) : d \in {"Node", "Own", "Mark", "ChainA", "ChainB", "OwnA", "OwnB"}}

FoldTys ==
    Tys \cup SliceTys \cup SelfTys
    \cup {Ref(ReErased, t, TRUE) : t \in SelfTys}
    \cup {Adt("Wrap", <<Type(t)>>) : t \in SelfTys}
    \cup {Tuple(<<t, Ref(ReErased, ty_Int("I32"), FALSE)>>) : t \in SelfTys}

\* the steps of a running fold_ty leave the stack st and the folder tf
Run(st, tf, fatal, calls_made) ==
    /\ stack' = IF fatal THEN <<>> ELSE st
    /\ type_folder' = tf
    /\ pc' = IF fatal THEN "fatal" ELSE IF st = <<>> THEN "folded" ELSE "folding"
    /\ n' = n + calls_made
    /\ UNCHANGED <<arg, ret, pointer_width, fn_abi, options, typeid, dict, dcx, log,
                   pushed_arg, parts, calls>>

\* the next call of fold_ty is made
FoldCall ==
    /\ pc = "folding"
    /\ Head(stack).op = "fold"
    /\ Len(type_folder.parents) <= MaxParents
    /\ Run(fold_ty_tasks(type_folder, Head(stack).t) \o Tail(stack),
           fold_ty_enter(type_folder, Head(stack).t),
           fold_ty_panics(type_folder, Head(stack).t), 1)

\* the fold of the field of a repr(transparent) struct has returned
FoldRestore ==
    /\ pc = "folding"
    /\ Head(stack).op = "restore"
    /\ Run(Tail(stack),
           [options |-> Head(stack).options,
            parents |-> SubSeq(type_folder.parents, 1, Len(type_folder.parents) - 1)],
           FALSE, 0)

InitFold ==
    /\ pc = "folding"
    /\ arg \in [ty : FoldTys, options : SUBSET {GENERALIZE_POINTERS, NORMALIZE_INTEGERS}]
    /\ pointer_width \in PointerWidths
    /\ fn_abi = NoValue
    /\ options = {}
    /\ n = 0
    /\ typeid = ""
    /\ dict = {}
    /\ type_folder = TransformTy_new(arg.options)
    /\ dcx = 0
    /\ log = <<>>
    /\ pushed_arg = FALSE
    /\ parts = <<>>
    /\ calls = <<>>
    /\ stack = <<Task("fold", arg.ty, {})>>
    /\ ret = NoValue

NextFold == FoldCall \/ FoldRestore

\* one type folded by a fresh TransformTy, call by call; a call that has been
\* entered runs on
SpecFold == InitFold /\ [][NextFold]_vars /\ WF_vars(NextFold)

TypeidForInstance ==
    Apply("typeid_for_instance", typeid_for_instance(arg.instance, arg.options))

InitInstance == InitApply([instance : Instances, options : AllOptions], {64})

NextInstance == TypeidForInstance

\* typeid_for_instance applied to one instance
SpecInstance == InitInstance /\ [][NextInstance]_vars

----------------------------------------------------------------------------
(* Properties *)

\* the number a string of digits stands for, the digits being those of alphabet
\* in order and the base its length; most significant digit first
RECURSIVE DigitsValue(_, _)
DigitsValue(s, alphabet) ==
    IF s = "" THEN 0
    ELSE DigitsValue(SubSeq(s, 1, Len(s) - 1), alphabet) * Len(alphabet)
         + (IndexOf(alphabet, At(s, Len(s))) - 1)

\* a number written in the digits of alphabet with no digit to spare
IsNumeral(s, alphabet) ==
    /\ s # ""
    /\ \A i \in 1..Len(s) : IndexOf(alphabet, At(s, i)) > 0
    /\ Len(s) > 1 => At(s, 1) # "0"

Base62Digits == DecDigits \o LowerCase \o UpperCase

Base36Digits == DecDigits \o UpperCase

\* C6: to_disambiguator returns a string for every number: "s_" for 0, and for
\* n > 0 the letter s, then n - 1 written in base 62, then "_"; for 1 it is "s0_".
C6_ToDisambiguator ==
    pc = "to_disambiguator" =>
        /\ arg = 0 => ret = "s_"
        /\ arg = 1 => ret = "s0_"
        /\ arg > 0 =>
              /\ Len(ret) >= 3
              /\ At(ret, 1) = "s"
              /\ At(ret, Len(ret)) = "_"
              /\ IsNumeral(SubSeq(ret, 2, Len(ret) - 1), Base62Digits)
              /\ DigitsValue(SubSeq(ret, 2, Len(ret) - 1), Base62Digits) = arg - 1

\* to_disambiguator has run on a number whose predecessor takes two digits
C6_Witness == pc = "to_disambiguator" /\ arg = 63 /\ ret = "s10_"

\* C7 as the code has it: to_seq_id(0) is the empty string, and for n > 0 it is
\* n - 1 written in base 36 with upper case digits, so that to_seq_id(1) is "0",
\* to_seq_id(11) is "A", to_seq_id(36) is "Z" and to_seq_id(37) is "10".
C7_ToSeqId ==
    pc = "to_seq_id" =>
        /\ arg = 0 => ret = ""
        /\ arg = 1 => ret = "0"
        /\ arg = 11 => ret = "A"
        /\ arg = 36 => ret = "Z"
        /\ arg = 37 => ret = "10"
        /\ arg > 0 => /\ IsNumeral(ret, Base36Digits)
                      /\ DigitsValue(ret, Base36Digits) = arg - 1

\* to_seq_id has run on 36
C7_Witness == pc = "to_seq_id" /\ arg = 36 /\ ret = "Z"

\* C7 as stated: to_seq_id(0) is the empty string, to_seq_id(1) is "A" and
\* to_seq_id(36) is "10".
C7_AsStated ==
    pc = "to_seq_id" =>
        /\ arg = 0 => ret = ""
        /\ arg = 1 => ret = "A"
        /\ arg = 36 => ret = "10"

\* the strings of a sequence one after another
RECURSIVE Concat(_)
Concat(ss) == IF ss = <<>> THEN "" ELSE Head(ss) \o Concat(Tail(ss))

\* the suffixes that the options of the call ask for
Suffixes ==
    (IF NORMALIZE_INTEGERS \in options THEN ".normalized" ELSE "")
    \o (IF GENERALIZE_POINTERS \in options THEN ".generalized" ELSE "")

\* C1: the string typeid_for_fnabi returns starts with _ZTSF, goes on with the
\* encoded return and parameter types and a closing E, and ends with .normalized
\* exactly when NORMALIZE_INTEGERS is set followed by .generalized exactly when
\* GENERALIZE_POINTERS is set; no other option adds a suffix.
C1_Format ==
    pc = "done" =>
        /\ Len(parts) >= 1
        /\ \E list \in {"", "v", "z"} :
              typeid = "_ZTSF" \o Concat(parts) \o list \o "E" \o Suffixes
        /\ EndsWith(typeid, ".normalized" \o ".generalized")
              <=> {NORMALIZE_INTEGERS, GENERALIZE_POINTERS} \subseteq options
        /\ EndsWith(typeid, ".generalized") <=> GENERALIZE_POINTERS \in options
        /\ EndsWith(typeid, ".normalized")
              <=> NORMALIZE_INTEGERS \in options /\ GENERALIZE_POINTERS \notin options

\* a call with both options and the two other options set has returned
C1_Witness ==
    /\ pc = "done"
    /\ options = {GENERALIZE_POINTERS, GENERALIZE_REPR_C, NORMALIZE_INTEGERS, USE_CONCRETE_SELF}
    /\ Len(parts) = 3
    /\ EndsWith(typeid, "E.normalized.generalized")

\* the first call of compress with the key of the i-th call
FirstOccurrence(i) == CHOOSE j \in 1..i : log[j].key = log[i].key /\
                                          \A h \in 1..(j - 1) : log[h].key # log[i].key

\* C5: in one computation of an identifier, the first time a key is passed to
\* compress its component is emitted in full and the key gets the size of the
\* dictionary just before as its index; every later time an equal key is passed,
\* the component emitted is S, then to_seq_id of that index, then _.
C5_Compression ==
    \A i \in 1..Len(log) :
        /\ log[i].before = (IF i = 1 THEN {} ELSE log[i - 1].after)
        /\ IF FirstOccurrence(i) = i
           THEN /\ log[i].out = log[i].comp
                /\ log[i].after =
                      log[i].before
                      \cup {[key |-> log[i].key, num |-> Cardinality(log[i].before)]}
                /\ \A ent \in log[i].before : ent.key # log[i].key
           ELSE /\ log[i].out =
                      "S" \o to_seq_id(Cardinality(log[FirstOccurrence(i)].before)) \o "_"
                /\ log[i].after = log[i].before

\* a key has come a second time after another key had been entered first
C5_Witness ==
    \E i \in 1..Len(log) :
        /\ FirstOccurrence(i) # i
        /\ log[i].out = "S0_"
        /\ Cardinality(dict) >= 2

\* the parameter list of the returned string: what stands between the encoded
\* return type and the closing E
ParamList ==
    SubSeq(typeid, Len("_ZTSF" \o parts[1]) + 1, Len(typeid) - Len("E" \o Suffixes))

\* the parameter list that the nested encoder wrote for a signature that takes
\* values of type f64 and returns unit, as the component of the pointer to it
SigParamList(comp) == SubSeq(comp, Len("PFv") + 1, Len(comp) - 1)

\* the parameter list that the rule asks for: the encoded parameters, then z for
\* a variadic signature, and v alone for no parameters that is not variadic
RuleParamList(encoded, variadic) ==
    IF variadic THEN Concat(encoded) \o "z"
    ELSE IF encoded = <<>> THEN "v"
    ELSE Concat(encoded)

\* C9: in typeid_for_fnabi and in encode_fnsig, a signature that is not variadic
\* and has no parameters has the parameter list v; a variadic one has its fixed
\* parameters and then z, and z without v when there are none.  A function of no
\* parameters returning unit, without options, gets _ZTSFvvE.
C9_ParamList ==
    /\ pc = "done" =>
          /\ ParamList = RuleParamList(Tail(parts), fn_abi.c_variadic)
          /\ (fn_abi.ret = unit /\ fn_abi.args = <<>> /\ ~fn_abi.c_variadic /\ options = {})
                => typeid = "_ZTSFvvE"
    /\ \A i \in 1..Len(log) :
          (log[i].key.kind = "Ty" /\ log[i].key.v.k = "FnPtr") =>
              /\ StartsWith(log[i].comp, "PFv")
              /\ EndsWith(log[i].comp, "E")
              /\ SigParamList(log[i].comp) =
                    RuleParamList([j \in 1..Len(log[i].key.v.sig.inputs) |-> "d"],
                                  log[i].key.v.sig.c_variadic)

\* a variadic function with no fixed parameter that returns a pointer to a
\* variadic function with no fixed parameter has been encoded
C9_Witness ==
    /\ pc = "done"
    /\ fn_abi.c_variadic
    /\ fn_abi.fixed_count = 0
    /\ fn_abi.ret = FnPtr(FnSig("C", unit, <<>>, TRUE))
    /\ typeid = "_ZTSFPFvzEzE"

\* C2: a call with the signature and the options of an earlier call returns the
\* string the earlier call returned, and every call starts with an empty
\* dictionary and an empty stack of visited types: nothing of an earlier call
\* is seen by a later one.
C2_Deterministic ==
    /\ pc = "done" =>
          \A i \in 1..Len(calls) :
              (calls[i].fn_abi = fn_abi /\ calls[i].options = options)
                  => calls[i].typeid = typeid
    /\ pc \in {"args", "done"} =>
          /\ type_folder = TransformTy_new(options)
          /\ log # <<>> => log[1].before = {}
          /\ \A ent \in dict : \E i \in 1..Len(log) : log[i].key = ent.key

\* a call that filled the dictionary has been made a second time
C2_Witness ==
    /\ pc = "done"
    /\ calls # <<>>
    /\ calls[1].fn_abi = fn_abi
    /\ calls[1].options = options
    /\ Cardinality(dict) >= 2
    /\ calls[1].typeid = typeid

\* the encoding of the type t alone, starting from an empty dictionary
Alone(t) == encode("encode_ty", t, EncState(EmptyDict), arg.options)

\* the encode_ty that has run is the one of a pair of a type with itself
IsPairEncoded ==
    /\ pc = "encode_ty"
    /\ arg.ty.k = "Tuple"
    /\ Len(arg.ty.tys) = 2
    /\ arg.ty.tys[1] = arg.ty.tys[2]
    /\ ~ret.e.fatal

\* C8 as the code has it: the tuple type (T, T) encoded with an empty dictionary
\* is u5tupleI, then the full encoding of T, then for the second element the
\* back-reference to the entry of T, then E.  The entry of T is the last of the
\* entries that encoding T makes, so the token is S_ when T makes one entry and
\* S<seq-id>_ when its components made entries before it; a type T that makes no
\* entry (bool, the floats, unit, a builtin cfi_encoding) is written in full a
\* second time.
C8_Pair ==
    IsPairEncoded =>
        /\ ret.s = "u5tupleI" \o Alone(arg.ty.tys[1]).s
                   \o (IF Alone(arg.ty.tys[1]).e.dict = {} THEN Alone(arg.ty.tys[1]).s
                       ELSE "S" \o to_seq_id(Cardinality(Alone(arg.ty.tys[1]).e.dict) - 1)
                            \o "_")
                   \o "E"
        /\ arg.ty.tys[1] = ty_Int("I32") => ret.s = "u5tupleIu3i32S_E"
        /\ arg.ty.tys[1] = Bool => ret.s = "u5tupleIbbE"
        /\ arg.ty.tys[1] = Ref(ReErased, ty_Int("I32"), FALSE)
              => ret.s = "u5tupleIu3refIu3i32ES0_E"

\* the pair of a reference with itself has been encoded
C8_Witness ==
    /\ IsPairEncoded
    /\ arg.ty.tys[1] = Ref(ReErased, ty_Int("I32"), TRUE)
    /\ ret.s = "u5tupleIU3mutu3refIu3i32ES1_E"

\* C8 as stated: for every element type T the second element is exactly S_.
C8_AsStated ==
    IsPairEncoded =>
        ret.s = "u5tupleI" \o Alone(arg.ty.tys[1]).s \o "S_" \o "E"

\* the fixed-width integer types by signedness and width
FixedInt(signed, width) ==
    IF signed THEN ty_Int("I" \o ToString(width)) ELSE ty_Uint("U" \o ToString(width))

\* C10: with NORMALIZE_INTEGERS the pass takes bool to u8, char to u32 and isize
\* and usize to the fixed-width integer of their signedness and of the pointer
\* width of the target, which is 16, 32, 64 or 128, any other width being
\* fatal; every other integer type stays.  On a 64-bit target usize and isize
\* are then encoded as u64 and i64 are, with GENERALIZE_POINTERS or without.
\* Without NORMALIZE_INTEGERS none of these types is rewritten.
C10_NormalizeIntegers ==
    (pc = "fold_ty" /\ arg.ty.k \in {"Bool", "Char", "Int", "Uint"}) =>
        IF NORMALIZE_INTEGERS \notin arg.options THEN ~ret.fatal /\ ret.v = arg.ty
        ELSE CASE arg.ty = Bool -> ~ret.fatal /\ ret.v = ty_Uint("U8")
               [] arg.ty = Char -> ~ret.fatal /\ ret.v = ty_Uint("U32")
               [] arg.ty \in {ty_Int("Isize"), ty_Uint("Usize")} ->
                     IF pointer_width \in {16, 32, 64, 128}
                     THEN /\ ~ret.fatal
                          /\ ret.v = FixedInt(arg.ty.k = "Int", pointer_width)
                          /\ pointer_width = 64 =>
                                /\ Alone(ret.v).s = Alone(FixedInt(arg.ty.k = "Int", 64)).s
                                /\ Alone(ret.v).s \in {"u3i64", "u3u64"}
                     ELSE ret.fatal
               [] OTHER -> ~ret.fatal /\ ret.v = arg.ty

\* usize has been normalized on a 32-bit target with both options set
C10_Witness ==
    /\ pc = "fold_ty"
    /\ pointer_width = 32
    /\ arg.ty = ty_Uint("Usize")
    /\ arg.options = {GENERALIZE_POINTERS, NORMALIZE_INTEGERS}
    /\ ret.v = ty_Uint("U32")


\* the call through the vtable that an instance is, or that it answers when it
\* is a method of an impl of a dispatch-safe trait: the method of the trait, the
\* predicates of the receiver without its auto traits, and the other arguments
\* of the trait; <<>> for any other instance
DispatchClass(x) ==
    CASE x.def.kind = "Virtual" /\ x.def.did = "Trait2::get"
            /\ x.args[1].v.preds[1].did = "Trait5" ->
            <<"Trait2::get", <<ExTrait("Trait2", <<>>), x.args[1].v.preds[2]>>, <<>> >>
      [] x.def.kind = "Virtual" /\ x.def.did # "drop_in_place"
            /\ ~(x.def.did = "Trait2::get" /\ x.args[1].v.preds[1].did = "Trait5") ->
            <<x.def.did, SelectSeq(x.args[1].v.preds, LAMBDA q : q.p # "AutoTrait"),
              skip1(x.args)>>
      [] x.def.kind = "Item" /\ x.def.did \in {"impl1::foo", "impl2::foo"} ->
            <<"Trait1::foo", <<ExTrait("Trait1", <<>>)>>, <<>> >>
      [] x.def.kind = "Item" /\ x.def.did = "impl3::get" ->
            <<"Trait2::get", <<ExTrait("Trait2", <<>>), OutIs(ty_Int("I32"))>>, <<>> >>
      [] x.def.kind = "Item" /\ x.def.did = "impl4::get" ->
            <<"Trait2::get", <<ExTrait("Trait2", <<>>), OutIs(x.args[1].v)>>, <<>> >>
      [] x.def.kind = "Item" /\ x.def.did = "impl6::put" ->
            <<"Trait4::put", <<ExTrait("Trait4", <<x.args[1]>>)>>, <<x.args[1]>> >>
      [] x.def.kind = "Item" /\ x.def.did = "impl8::five" ->
            <<"Trait5::five", <<ExTrait("Trait5", <<>>), OutIs(ty_Int("I32")), AuxIs(Bool)>>,
              <<>> >>
      [] OTHER -> <<>>

\* the identifier of a function of the Rust ABI taking args and returning out
IdOfSignature(out, args, opts) ==
    typeid_for_fnabi(FnAbi("Rust", out, [i \in 1..Len(args) |-> ArgAbi(args[i], "Direct")],
                           FALSE, Len(args)), opts).typeid

\* C3: without USE_CONCRETE_SELF, a call through a vtable slot and every method
\* of an impl it may resolve to (dispatch-safe trait and method, same trait
\* arguments, same options) get the same identifier, whatever the slot number
\* and whatever auto traits the receiver carries; for Trait1::foo it is the
\* identifier of fn(&dyn Trait1, i32)
C3_VirtualMatchesImpl ==
    (/\ pc = "typeid_for_instance"
     /\ USE_CONCRETE_SELF \notin arg.options
     /\ DispatchClass(arg.instance) # <<>>) =>
        /\ ~ret.fatal
        /\ \A y \in Instances :
              DispatchClass(y) = DispatchClass(arg.instance) =>
                  typeid_for_instance(y, arg.options) = ret
        /\ DispatchClass(arg.instance)[1] = "Trait1::foo" =>
              ret.v = IdOfSignature(unit, <<Ref(ReErased, DynOf(<<ExTrait("Trait1", <<>>)>>),
                                                FALSE), ty_Int("I32")>>, arg.options)

\* a call of Trait1::foo through slot 2 on dyn Trait1 + Send: the method of the
\* impl for i32 has the same identifier, not the one of its concrete signature
C3_Witness ==
    /\ pc = "typeid_for_instance"
    /\ arg.options = {}
    /\ arg.instance = Instance(Virtual("Trait1::foo", 2),
                               <<Type(DynOf(<<ExTrait("Trait1", <<>>), ExAutoTrait("Send")>>))>>)
    /\ ~ret.fatal
    /\ typeid_for_instance(Instance(Item("impl2::foo"), <<>>), {}) = ret
    /\ typeid_for_instance(Instance(Item("impl2::foo"), <<>>), {USE_CONCRETE_SELF}) # ret
    /\ typeid_for_instance(Instance(Item("impl1::gen"), <<>>), {}) # ret

\* drop glue, and a call of drop_in_place through a vtable
IsDrop(x) ==
    \/ x.def.kind = "DropGlue"
    \/ x.def.kind = "Virtual" /\ x.def.did = "drop_in_place"

\* C4: every drop glue instance, whatever type it drops, and every virtual call
\* of drop_in_place get the one receiver dyn Drop (a single Drop trait
\* predicate without arguments, erased region) as their only argument, so that
\* under equal options all of them have the one identifier of
\* fn(*mut dyn Drop)
C4_DropGlue ==
    (pc = "typeid_for_instance" /\ IsDrop(arg.instance)) =>
        /\ ~ret.fatal
        /\ instance_receiver(arg.instance).v.args
              = <<Type(Dynamic(<<ExTrait("Drop", <<>>)>>, ReErased, "Dyn"))>>
        /\ \A y \in Instances : IsDrop(y) => typeid_for_instance(y, arg.options) = ret
        /\ ret.v = IdOfSignature(unit, <<RawPtr(Dynamic(<<ExTrait("Drop", <<>>)>>,
                                                        ReErased, "Dyn"), TRUE)>>,
                                 arg.options)

\* the drop glue of Struct1 has the identifier of a call of drop_in_place
\* through slot 1 on dyn Trait1, and not the one of fn(*mut Struct1)
C4_Witness ==
    /\ pc = "typeid_for_instance"
    /\ arg.options = {}
    /\ arg.instance = Instance(DropGlue("drop_in_place", <<Struct1Ty>>), <<Type(Struct1Ty)>>)
    /\ ~ret.fatal
    /\ ret = typeid_for_instance(Instance(Virtual("drop_in_place", 1),
                                          <<Type(DynOf(<<ExTrait("Trait1", <<>>)>>))>>), {})
    /\ ret.v # IdOfSignature(unit, <<RawPtr(Struct1Ty, TRUE)>>, {})


\* the references among the types the folder is applied to
RefTys == {t \in Tys : t.k = "Ref"}

\* what fold_ty makes of a type under the options of the state
FoldOf(t) == fold_ty(TransformTy_new(arg.options), t)

\* C11 as the code has it: with GENERALIZE_POINTERS fold_ty rewrites every
\* reference to the reference to unit of the same mutability with the static
\* region, whatever it points at, so that two references of the same mutability
\* to different types become the same type and encode to the same string,
\* u3refIvE for a shared and U3mutu3refIvE for a mutable reference
C11_GeneralizeRefs ==
    (pc = "fold_ty" /\ arg.ty.k = "Ref" /\ GENERALIZE_POINTERS \in arg.options) =>
        /\ ~ret.fatal
        /\ ret.v = Ref(ReStatic, unit, arg.ty.mutbl)
        /\ \A u \in RefTys :
              u.mutbl = arg.ty.mutbl =>
                  /\ FoldOf(u).v = ret.v
                  /\ Alone(FoldOf(u).v).s = Alone(ret.v).s
        /\ Alone(ret.v).s = IF arg.ty.mutbl THEN "U3mutu3refIvE" ELSE "u3refIvE"

\* &i32 has been folded to &'static (), which is also what &Struct1 folds to
C11_Witness ==
    /\ pc = "fold_ty"
    /\ arg.options = {GENERALIZE_POINTERS}
    /\ arg.ty = Ref(ReErased, ty_Int("I32"), FALSE)
    /\ ret.v = Ref(ReStatic, unit, FALSE)
    /\ FoldOf(Ref(ReErased, Adt("Struct1", <<>>), FALSE)).v = ret.v
    /\ Alone(ret.v).s = "u3refIvE"

\* C11 as stated: with GENERALIZE_POINTERS any two references to different types
\* fold to the same type and encode to the same string
C11_AsStated ==
    (pc = "fold_ty" /\ arg.ty.k = "Ref" /\ GENERALIZE_POINTERS \in arg.options) =>
        \A u \in RefTys :
            u.ty # arg.ty.ty =>
                /\ FoldOf(u).v = ret.v
                /\ Alone(FoldOf(u).v).s = Alone(ret.v).s

\* a repr(transparent) struct
IsTransparent(t) ==
    t.k = "Adt" /\ adt_def(t.did).transparent /\ adt_def(t.did).is_struct

\* the type of the first field of a repr(transparent) struct that is not
\* zero-sized, over the arguments of the struct
NonZstField(t) ==
    instantiate(adt_def(t.did).fields[first_non_zst(adt_def(t.did).fields)].ty, t.args)

Unexpected(t) ==
    t.k \in {"Alias", "Bound", "Infer", "Error", "Placeholder", "CoroutineWitness"}

\* The types encode_ty is called on when it encodes t: t, and what its own arms
\* pass on to encode_ty.  A user-defined type with an encoding of its own, or
\* one encoded by its bare name, passes on nothing; a function pointer hands
\* its signature to encode_fnsig, which transforms each type before encoding.
RECURSIVE EncodedInside(_, _)
EncodedInside(t, opts) ==
    {t} \cup
    CASE t.k \in {"Array", "Pat", "Slice", "Ref", "RawPtr"} -> EncodedInside(t.ty, opts)
      [] t.k = "Tuple" -> UNION {EncodedInside(t.tys[i], opts) : i \in DOMAIN t.tys}
      [] /\ t.k = "Adt"
         /\ ~cfi_encoding(t.did).attr
         /\ ~(GENERALIZE_REPR_C \in opts /\ adt_def(t.did).repr_c) ->
            UNION {EncodedInside(t.args[i].v, opts) :
                   i \in {j \in DOMAIN t.args : t.args[j].g = "Type"}}
      [] OTHER -> {}

\* C13: whenever encode_ty meets an alias, a bound variable, an inference
\* variable, an error, a placeholder or a coroutine witness, as the type it is
\* given or as a type it recurses into, the encoding ends in a panic and no
\* identifier comes out of it.
C13_UnexpectedIsFatal ==
    (pc = "encode_ty" /\ \E b \in EncodedInside(arg.ty, arg.options) : Unexpected(b))
        => ret.e.fatal

C13_Witness ==
    /\ pc = "encode_ty"
    /\ arg.ty = Tuple(<<Ref(ReErased, CoroutineWitness, FALSE),
                        Ref(ReErased, CoroutineWitness, FALSE)>>)
    /\ ret.e.fatal
    /\ Alone(Error).e.fatal
    /\ Alone(Array(Alias("Alias1", <<>>), 3)).e.fatal
    /\ ~Alone(Array(ty_Int("I32"), 3)).e.fatal

\* A user-defined or foreign type whose cfi_encoding attribute has a value that
\* is empty once trimmed.
HasEmptyOverride(t) ==
    /\ t.k \in {"Adt", "Foreign"}
    /\ cfi_encoding(t.did).attr
    /\ cfi_encoding(t.did).has_value
    /\ trim(cfi_encoding(t.did).value) = ""

\* C14: an empty or whitespace-only cfi_encoding on a user-defined type or on a
\* foreign type is a recoverable error: every occurrence records a diagnostic,
\* nothing panics, and every occurrence of the type contributes the empty
\* string to the encoding, alone as well as twice in one tuple.
C14_AsStated ==
    pc = "encode_ty" =>
        /\ HasEmptyOverride(arg.ty) =>
                ~ret.e.fatal /\ ret.e.dcx = 1 /\ ret.s = ""
        /\ (/\ arg.ty.k = "Tuple"
            /\ Len(arg.ty.tys) = 2
            /\ HasEmptyOverride(arg.ty.tys[1])
            /\ arg.ty.tys[2] = arg.ty.tys[1]) =>
                ~ret.e.fatal /\ ret.e.dcx = 2 /\ ret.s = "u5tupleIE"

\* C15: a call compress(dict, key, buf) does one of two things.  With the key
\* in the dictionary the buffer becomes S, to_seq_id of the key's index, _, and
\* the dictionary stays as it was.  With the key absent the key is entered with
\* the size of the dictionary before the call as its index, every earlier entry
\* keeps its index, and the buffer stays as it was.
C15_CompressFrame ==
    \A i \in 1..Len(log) :
        IF \E ent \in log[i].before : ent.key = log[i].key
        THEN /\ log[i].out =
                    "S" \o to_seq_id((CHOOSE ent \in log[i].before :
                                          ent.key = log[i].key).num) \o "_"
             /\ log[i].after = log[i].before
        ELSE /\ log[i].out = log[i].comp
             /\ log[i].before \subseteq log[i].after
             /\ log[i].after \ log[i].before =
                    {[key |-> log[i].key, num |-> Cardinality(log[i].before)]}

\* one call found its key at index 1, another entered a third key
C15_Witness ==
    /\ \E i \in 1..Len(log) :
            /\ [key |-> log[i].key, num |-> 1] \in log[i].before
            /\ log[i].out = "S0_"
            /\ log[i].after = log[i].before
    /\ \E i \in 1..Len(log) :
            /\ Cardinality(log[i].before) = 2
            /\ Cardinality(log[i].after) = 3
            /\ log[i].out = log[i].comp

\* the type at a place of the signature: 0 is the return type, i the i-th argument
SigTy(i) == IF i = 0 THEN fn_abi.ret ELSE fn_abi.args[i].ty

\* the types that encoding t enters into the dictionary
Mentions(t) ==
    IF t.k = "FnPtr" THEN {t} \cup {t.sig.inputs[j] : j \in DOMAIN t.sig.inputs}
    ELSE IF t = unit THEN {}
    ELSE {t}

\* nothing the type at place i mentions was mentioned at an earlier place
Fresh(i) == \A j \in 0..(i - 1) : Mentions(SigTy(j)) \cap Mentions(SigTy(i)) = {}

\* the encoding of t alone with GENERALIZE_REPR_C set or not
UnderSetting(t, on) ==
    encode("encode_ty", t, EncState(EmptyDict),
           IF on THEN {GENERALIZE_REPR_C} ELSE {}).s

\* C16: GENERALIZE_REPR_C belongs to a signature.  The return and parameter
\* types of the signature typeid_for_fnabi is given are encoded with the option
\* set exactly when the calling convention is C, whatever the options passed
\* say; a function pointer among them is encoded with the option set exactly
\* when its own signature is C; and the types after the function pointer are
\* encoded under the setting of the outer signature again.
C16_ReprCScoped ==
    pc # "fatal" =>
        \A i \in 0..(Len(parts) - 1) :
            /\ (SigTy(i).k = "Adt" /\ Fresh(i)) =>
                    parts[i + 1] = UnderSetting(SigTy(i), fn_abi.conv = "C")
            /\ (SigTy(i).k = "FnPtr" /\ Fresh(i)
                    /\ GENERALIZE_POINTERS \notin options) =>
                    parts[i + 1] =
                        "PFv" \o UnderSetting(SigTy(i).sig.inputs[1],
                                              SigTy(i).sig.abi = "C") \o "E"
            /\ SigTy(i).k = "FnPtr" =>
                    encode("encode_fnsig", SigTy(i).sig, EncState(EmptyDict), options).s =
                        "Fv" \o UnderSetting(SigTy(i).sig.inputs[1],
                                             SigTy(i).sig.abi = "C") \o "E"

\* a Rust function called with GENERALIZE_REPR_C that takes a pointer to a C
\* function and then a repr(C) struct
C16_Witness ==
    /\ pc = "done"
    /\ fn_abi.conv = "Rust"
    /\ options = {GENERALIZE_REPR_C}
    /\ fn_abi.ret = unit
    /\ Len(fn_abi.args) = 2
    /\ fn_abi.args[1].ty = FnPtr(FnSig("C", unit, <<Adt("type1", <<>>)>>, FALSE))
    /\ fn_abi.args[2].ty = Adt("type2", <<>>)
    /\ parts = <<"v", "PFv5type1E", UnderSetting(Adt("type2", <<>>), FALSE)>>
    /\ UnderSetting(Adt("type2", <<>>), TRUE) = "5type2"
    /\ UnderSetting(Adt("type2", <<>>), FALSE) # "5type2"

\* A user-defined type whose cfi_encoding attribute has a value that is not
\* empty once trimmed, and that value.
HasOverride(t) ==
    /\ t.k = "Adt"
    /\ cfi_encoding(t.did).attr
    /\ cfi_encoding(t.did).has_value
    /\ trim(cfi_encoding(t.did).value) # ""

Override(t) == trim(cfi_encoding(t.did).value)

InDict(d, t) == \E ent \in d : ent.key = DictKey_Ty(t, "None")

\* the types with an override among the type encode_ty was given and, for a
\* tuple, its first element
Overridden ==
    {u \in {arg.ty} \cup (IF arg.ty.k = "Tuple" /\ arg.ty.tys # <<>>
                           THEN {arg.ty.tys[1]} ELSE {}) : HasOverride(u)}

\* the type encode_ty was given is t, or the tuple (t, t)
GivenOnce(t) == arg.ty = t
GivenTwice(t) == arg.ty = Tuple(<<t, t>>)

\* C17 as amended: a user-defined type with a non-empty cfi_encoding is written
\* as that string, and it is entered into the dictionary unless the string is
\* one of the builtin codes: a second occurrence of a type whose string is not
\* a builtin code is a back-reference, and a second occurrence of one whose
\* string is a builtin code is the string again.
C17_Override ==
    pc = "encode_ty" =>
        \A t \in Overridden :
            /\ GivenOnce(t) =>
                    /\ ret.s = Override(t)
                    /\ InDict(ret.e.dict, t) <=> Override(t) \notin builtin_types
            /\ GivenTwice(t) =>
                    /\ ret.s = "u5tupleI" \o Override(t)
                                 \o (IF Override(t) \in builtin_types THEN Override(t)
                                     ELSE "S_")
                                 \o "E"
                    /\ InDict(ret.e.dict, t) <=> Override(t) \notin builtin_types

C17_Witness ==
    /\ pc = "encode_ty"
    /\ GivenTwice(Adt("CfiNamed", <<>>))
    /\ ret.s = "u5tupleI3FooS_E"
    /\ InDict(ret.e.dict, Adt("CfiNamed", <<>>))
    /\ Alone(Tuple(<<Adt("CfiI", <<>>), Adt("CfiI", <<>>)>>)).s = "u5tupleIiiE"
    /\ ~ret.e.fatal

\* C17: a user-defined type with a non-empty cfi_encoding is written as that
\* string and is not entered into the dictionary unless the string is one of
\* the builtin codes, so that a second occurrence of a type whose string is not
\* a builtin code is written in full again.
C17_AsStated ==
    pc = "encode_ty" =>
        \A t \in Overridden :
            /\ GivenOnce(t) =>
                    /\ ret.s = Override(t)
                    /\ InDict(ret.e.dict, t) <=> Override(t) \in builtin_types
            /\ (GivenTwice(t) /\ Override(t) \notin builtin_types) =>
                    ret.s = "u5tupleI" \o Override(t) \o Override(t) \o "E"

\* the const encode_const was given is a literal
OfLiteral == pc = "encode_const" /\ arg.c.ck = "Value"

\* what encode_const wrote between the encoded type of the const and the
\* closing E
ValuePart ==
    SubSeq(ret.s, Len("L" \o Alone(arg.c.ty).s) + 1, Len(ret.s) - 1)

\* C18: for a literal of type bool encode_const returns L, the encoded type b,
\* the digit 0 for false and 1 for true, and E.
C18_AsStated ==
    (OfLiteral /\ arg.c.ty = Bool) =>
        /\ ~ret.e.fatal
        /\ ret.s = "Lb" \o (IF arg.c.bits = 1 THEN "1" ELSE "0") \o "E"

\* C19: encode_const returns an encoding for a literal of type bool, of an
\* integer type and of type char, and panics for a literal of any other type.
C19_AsStated ==
    OfLiteral =>
        IF arg.c.ty.k \in {"Bool", "Int", "Uint", "Char"}
        THEN ~ret.e.fatal /\ StartsWith(ret.s, "L") /\ EndsWith(ret.s, "E")
        ELSE ret.e.fatal

\* C20: for a literal of an integer type, what stands between the encoded type
\* and the closing E is n exactly when the value, sign-extended from the width
\* of its type, is negative, and after that decimal digits and nothing else.
C20_AsStated ==
    (OfLiteral /\ arg.c.ty.k \in {"Int", "Uint"}) =>
        /\ ~ret.e.fatal
        /\ StartsWith(ValuePart, "n") <=>
                (arg.c.ty.k = "Int" /\ sign_extend(int_size(arg.c.ty.ity), arg.c.bits) < 0)
        /\ \A i \in 1..Len(ValuePart) :
                \/ i = 1 /\ At(ValuePart, 1) = "n"
                \/ IndexOf(DecDigits, At(ValuePart, i)) > 0
        /\ ValuePart \notin {"", "n"}

\* s is a vendor extended type u<length><name>[I<args>E]: u, the length of the
\* name in decimal, the name, and nothing more or template arguments in I..E
IsVendorExtended(s) ==
    /\ StartsWith(s, "u")
    /\ \E k \in 1..(Len(s) - 1) :
          /\ IsNumeral(SubSeq(s, 2, k + 1), DecDigits)
          /\ DigitsValue(SubSeq(s, 2, k + 1), DecDigits) >= 1
          /\ Len(s) >= 1 + k + DigitsValue(SubSeq(s, 2, k + 1), DecDigits)
          /\ IndexOf(DecDigits, At(s, k + 2)) = 0
          /\ \/ Len(s) = 1 + k + DigitsValue(SubSeq(s, 2, k + 1), DecDigits)
             \/ /\ At(s, 2 + k + DigitsValue(SubSeq(s, 2, k + 1), DecDigits)) = "I"
                /\ EndsWith(s, "E")
                /\ Len(s) >= 3 + k + DigitsValue(SubSeq(s, 2, k + 1), DecDigits)

\* the kinds of type written as a vendor extended type
VendorKinds == {"Int", "Uint", "Char", "Str", "Never", "Tuple", "Pat", "Slice"}

\* encode_ty has returned the encoding of a type that is not unit
Encoded == pc = "encode_ty" /\ ~ret.e.fatal /\ ~is_unit(arg.ty)

\* C21 as amended: an integer, char, str, the never type, a tuple, a pattern
\* type and a slice are each written as a vendor extended type, u, the length
\* of a name, the name, and for those with parts I, the parts, E; an array is
\* written as A, its length and the encoding of its element type.
C21_VendorExtended ==
    Encoded =>
        /\ arg.ty.k \in VendorKinds => IsVendorExtended(ret.s)
        /\ arg.ty.k \in {"Tuple", "Pat", "Slice"} =>
                StartsWith(ret.s, "u" \o ToString(Len(arg.ty.k)))
        /\ arg.ty.k = "Array" =>
                ret.s = "A" \o ToString(arg.ty.len) \o Alone(arg.ty.ty).s

C21_Witness ==
    /\ Encoded
    /\ arg.ty = Array(ty_Int("I32"), 3)
    /\ ret.s = "A3u3i32"
    /\ Alone(Slice(ty_Int("I32"))).s = "u5sliceIu3i32E"
    /\ Alone(Pat(ty_Int("I32"), "1..=9")).s = "u3patIu3i321..=9E"
    /\ Alone(Tuple(<<Str, Str>>)).s = "u5tupleIu3strS_E"
    /\ IsVendorExtended("u5never")
    /\ ~IsVendorExtended("A3u3i32")

\* C21: an integer, char, str, the never type, a tuple, an array, a pattern
\* type and a slice are each written as a vendor extended type: the encoding of
\* each, arrays included, begins with u and a name with its length before it.
C21_AsStated ==
    (Encoded /\ arg.ty.k \in VendorKinds \cup {"Array"}) => IsVendorExtended(ret.s)

\* C22: fold_ty comes to an end on every type, the repr(transparent) structs
\* that refer to themselves included: through a pointer field, through the
\* argument of a generic struct or beside a zero-sized marker, and through
\* another repr(transparent) struct that refers back.
C22_Terminates == <>(pc \in {"folded", "fatal"})

\* the fold of OwnA, whose field holds OwnB, whose field holds OwnA, has ended:
\* fold_ty was called on OwnA, Gen1<OwnB>, OwnB, Gen1<OwnA> and OwnA again, where
\* it stopped
C22_Witness ==
    /\ pc = "folded"
    /\ arg.ty = Adt("OwnA", <<>>)
    /\ n = 5
    /\ stack = <<>>
    /\ FoldOf(Adt("OwnA", <<>>)).v = Adt("Gen1", <<Type(Adt("Gen1", <<Type(Adt("OwnA", <<>>))>>))>>)
    /\ FoldOf(Adt("Node", <<>>)).v = RawPtr(unit, FALSE)

\* the folders fold_ty may be entered with on t: any options, and nothing, an
\* outer wrapper or t itself on the stack of parents
EntryFolders(t) ==
    {[options |-> o, parents |-> p] :
        o \in SUBSET {GENERALIZE_POINTERS, NORMALIZE_INTEGERS},
        p \in {<<>>, <<Adt("Wrap", <<Type(t)>>)>>, <<t>>}}

\* C23: a fold leaves the folder as it found it.  Whenever fold_ty returns
\* without a panic its options are those it was entered with and so is its
\* stack of parents; and in a signature folded by one folder, a
\* repr(transparent) struct that points to itself, in the place of the return
\* type, does not make the pointers of the parameters after it generalized when
\* GENERALIZE_POINTERS was not asked for.
C23_FolderRestored ==
    /\ pc \in {"args", "done"} => type_folder = TransformTy_new(options)
    /\ (pc = "start" /\ calls = <<>>) =>
          \A t \in SelfTys \cup {Ref(ReErased, u, TRUE) : u \in SelfTys}
                   \cup {fn_abi.ret} :
              \A tf0 \in EntryFolders(t) :
                  ~fold_ty(tf0, t).fatal => fold_ty(tf0, t).tf = tf0
    /\ (/\ pc \in {"args", "done"}
        /\ fn_abi.ret = Adt("Node", <<>>)
        /\ GENERALIZE_POINTERS \notin options
        /\ Len(parts) >= 2) =>
            /\ parts[1] = "PKv"
            /\ fn_abi.args[1].ty.k = "Ref" =>
                    parts[2] = "u3refI" \o primitive_name(fn_abi.args[1].ty.ty) \o "E"

C23_Witness ==
    /\ pc = "done"
    /\ fn_abi.ret = Adt("Node", <<>>)
    /\ options = {}
    /\ Len(fn_abi.args) = 2
    /\ fn_abi.args[1].ty = Ref(ReErased, ty_Uint("Usize"), FALSE)
    /\ parts = <<"PKv", "u3refIu5usizeE", "S1_">>
    /\ type_folder = TransformTy_new({})
    /\ typeid = "_ZTSFPKvu3refIu5usizeES1_E"

\* the back-reference to the entry of key in dictionary d
BackRef(d, key) == "S" \o to_seq_id(dict_get(d, key).num) \o "_"

Keys(d) == {ent.key : ent \in d}

\* encode_ty was given the pair of T with a const raw pointer to T, or the pair
\* of a shared reference to T with a mutable reference to T, and did not panic
GivenConstPtrAfter ==
    /\ pc = "encode_ty" /\ ~ret.e.fatal
    /\ arg.ty.k = "Tuple" /\ Len(arg.ty.tys) = 2
    /\ arg.ty.tys[2] = RawPtr(arg.ty.tys[1], FALSE)

GivenMutRefAfter ==
    /\ pc = "encode_ty" /\ ~ret.e.fatal
    /\ arg.ty.k = "Tuple" /\ Len(arg.ty.tys) = 2
    /\ arg.ty.tys[1].k = "Ref" /\ ~arg.ty.tys[1].mutbl
    /\ arg.ty.tys[2] = [arg.ty.tys[1] EXCEPT !.mutbl = TRUE]

\* C24 as amended: the qualifier levels are dictionary keys of their own.  (a) A
\* const raw pointer to T encoded after T is P, K and, for a T that has an entry
\* in the dictionary, the back-reference to it, and for a T that has none (bool,
\* a float, unit, a builtin code given by the user, an empty one) the encoding
\* of T again; the K level and the P level are entered anew.  (b) A mutable
\* reference to T encoded after the shared reference to T is U3mut and the
\* back-reference to the shared reference, and enters exactly one key.
C24_QualifierLevels ==
    /\ GivenConstPtrAfter =>
          /\ ret.s = "u5tupleI" \o Alone(arg.ty.tys[1]).s \o "PK"
                       \o (IF InDict(Alone(arg.ty.tys[1]).e.dict, arg.ty.tys[1])
                           THEN BackRef(Alone(arg.ty.tys[1]).e.dict,
                                        DictKey_Ty(arg.ty.tys[1], "None"))
                           ELSE Alone(arg.ty.tys[1]).s)
                       \o "E"
          /\ Keys(ret.e.dict) \ Keys(Alone(arg.ty.tys[1]).e.dict) =
                {DictKey_Ty(arg.ty.tys[1], "Const"), DictKey_Ty(arg.ty.tys[2], "None"),
                 DictKey_Ty(arg.ty, "None")}
          /\ Cardinality(ret.e.dict) = Cardinality(Alone(arg.ty.tys[1]).e.dict) + 3
    /\ GivenMutRefAfter =>
          /\ ret.s = "u5tupleI" \o Alone(arg.ty.tys[1]).s \o "U3mut"
                       \o BackRef(Alone(arg.ty.tys[1]).e.dict,
                                  DictKey_Ty(arg.ty.tys[1], "None"))
                       \o "E"
          /\ Keys(ret.e.dict) \ Keys(Alone(arg.ty.tys[1]).e.dict) =
                {DictKey_Ty(arg.ty.tys[2], "Mut"), DictKey_Ty(arg.ty, "None")}
          /\ Cardinality(ret.e.dict) = Cardinality(Alone(arg.ty.tys[1]).e.dict) + 2

C24_Witness ==
    /\ GivenConstPtrAfter
    /\ arg.ty.tys[1] = ty_Int("I32")
    /\ ret.s = "u5tupleIu3i32PKS_E"
    /\ Cardinality(ret.e.dict) = 4
    /\ Alone(Tuple(<<Ref(ReErased, ty_Int("I32"), FALSE),
                     Ref(ReErased, ty_Int("I32"), TRUE)>>)).s = "u5tupleIu3refIu3i32EU3mutS0_E"
    /\ Alone(Tuple(<<Bool, RawPtr(Bool, FALSE)>>)).s = "u5tupleIbPKbE"

\* C24: for every type T the plain T, the const-pointee level of a const raw
\* pointer to T and the mutable-reference level of &mut T are entries of their
\* own in the dictionary, so that a const raw pointer to T encoded after T is P,
\* K and the back-reference to T, with the K level and the P level entered anew.
C24_AsStated ==
    GivenConstPtrAfter =>
        /\ InDict(ret.e.dict, arg.ty.tys[1])
        /\ ret.s = "u5tupleI" \o Alone(arg.ty.tys[1]).s \o "PK"
                     \o BackRef(ret.e.dict, DictKey_Ty(arg.ty.tys[1], "None"))
                     \o "E"

\* the indices of a dictionary are 0 .. size-1, each held by one key, and no key
\* has two
Dense(d) ==
    /\ {ent.num : ent \in d} = 0..(Cardinality(d) - 1)
    /\ \A a, b \in d : (a.num = b.num \/ a.key = b.key) => a = b

\* the call of compress recorded at i gave a back-reference for its component
GaveBackRef(i) == log[i].out # log[i].comp

\* C25: at every point of the computation of an identifier the indices of the
\* dictionary are exactly 0 .. size-1 with no index shared by two keys, an entry
\* keeps the index it was given, and a back-reference that is emitted names an
\* index below the size the dictionary has at that moment.
C25_DenseIndices ==
    /\ Dense(dict)
    /\ \A i \in 1..Len(log) :
          /\ Dense(log[i].before)
          /\ Dense(log[i].after)
          /\ log[i].before \subseteq log[i].after
          /\ log[i].after \subseteq dict
          /\ GaveBackRef(i) =>
                \E k \in 0..(Cardinality(log[i].before) - 1) :
                    log[i].out = "S" \o to_seq_id(k) \o "_"

\* with three entries in the dictionary, back-references to the entries of
\* index 0, 1 and 2 were emitted one after the other
C25_Witness ==
    /\ pc = "done"
    /\ Cardinality(dict) = 3
    /\ \E i \in 1..(Len(log) - 2) :
          /\ Cardinality(log[i].before) = 3
          /\ GaveBackRef(i) /\ GaveBackRef(i + 1) /\ GaveBackRef(i + 2)
          /\ log[i].out = "S_"
          /\ log[i + 1].out = "S0_"
          /\ log[i + 2].out = "S1_"

\* the text sub stands somewhere in the text s
Occurs(sub, s) ==
    \E k \in 0..(Len(s) - Len(sub)) : SubSeq(s, k + 1, k + Len(sub)) = sub

\* the call of compress recorded at j entered its key
Entered(j) == log[j].after # log[j].before

\* the entry made at j was made while the component discarded at i was built:
\* the key of i was in the dictionary already, and the component of i holds
\* the full form of j
BuiltInside(j, i) ==
    /\ j < i
    /\ Entered(j)
    /\ GaveBackRef(i)
    /\ log[i].key \in Keys(log[j].before)
    /\ Occurs(log[j].comp, log[i].comp)

\* C26: a component that compress replaces by a back-reference entered nothing
\* into the dictionary while it was built, and the returned identifier holds
\* the full form of every entry of the dictionary.
C26_AsStated ==
    /\ \A i, j \in 1..Len(log) : ~BuiltInside(j, i)
    /\ pc = "done" => \A j \in 1..Len(log) : Entered(j) => Occurs(log[j].comp, typeid)


\* arg.mode != PassMode::Ignore
NotIgnored(a) == a.mode # "Ignore"

\* the arguments among the first k that are not ignored
KeptArgs(abi, k) == SelectSeq(SubSeq(abi.args, 1, k), NotIgnored)

\* the signature with the arguments that are considered and not ignored only
WithoutIgnored(abi) ==
    Then(KeptArgs(abi, fnabi_arg_count(abi)), LAMBDA kept :
    FnAbi(abi.conv, abi.ret, kept, abi.c_variadic, Len(kept)))

\* C27: an argument passed in mode Ignore adds nothing to the identifier, is
\* not folded and enters nothing into the dictionary: the call ends with the
\* identifier, the dictionary, the folder and the compress history of the same
\* signature without its ignored arguments, where a variadic signature counts
\* its first fixed_count arguments only.  With every argument ignored a
\* signature that is not variadic has the parameter list v, a variadic one z.
C27_IgnoredArgs ==
    /\ pc = "args" =>
          /\ Len(parts) = 1 + Len(KeptArgs(fn_abi, n))
          /\ pushed_arg = (KeptArgs(fn_abi, n) # <<>>)
    /\ pc = "done" =>
          /\ Then(typeid_for_fnabi(WithoutIgnored(fn_abi), options), LAMBDA st :
                /\ ~st.e.fatal
                /\ typeid = st.typeid
                /\ dict = st.e.dict
                /\ log = st.e.log
                /\ dcx = st.e.dcx
                /\ type_folder = st.tf
                /\ parts = st.parts)
          /\ KeptArgs(fn_abi, fnabi_arg_count(fn_abi)) = <<>> =>
                ParamList = IF fn_abi.c_variadic THEN "z" ELSE "v"

\* a C function of two arguments, the first ignored and the second a repr(C)
\* struct, that returns i32: the struct follows the return type at once
C27_Witness ==
    /\ pc = "done"
    /\ options = {}
    /\ fn_abi.conv = "C"
    /\ ~fn_abi.c_variadic
    /\ fn_abi.ret = ty_Int("I32")
    /\ fn_abi.args = <<ArgAbi(ty_Int("I32"), "Ignore"), ArgAbi(Adt("type1", <<>>), "Direct")>>
    /\ typeid = "_ZTSFu3i325type1E"
    /\ Cardinality(dict) = 2
    /\ Len(log) = 2


====
